---- MODULE Spec2Model ----
(***************************************************************************)
(* State-machine model of the NES emulator core (nes-emulator):            *)
(* Cpu -> Bus -> Ppu -> Rom, as nested records that follow the ownership   *)
(* of the Rust structs.  Operators carry the names of the functions they   *)
(* model, prefixed by the owning type (Ppu_step models Ppu::step).         *)
(*                                                                         *)
(* An operator that models a `&mut self` method returns the new record; a  *)
(* method that also returns a value returns [val |-> ..., st |-> ...].     *)
(***************************************************************************)
EXTENDS Integers, Sequences, FiniteSets, TLC

VARIABLES
    cpu,    \* Nes.cpu: the Cpu record, owning bus, bus.ppu and bus.ppu.rom
    host,   \* position of the host loop of SDLWrapper::run
    obs     \* what the last call did and returned (history, not program state)

vars == <<cpu, host, obs>>

RECURSIVE Invoke(_, _)

----------------------------------------------------------------------------
(* Fixed-width integer helpers                                             *)

RECURSIVE BitAnd(_, _)
BitAnd(x, y) ==
    IF x = 0 \/ y = 0 THEN 0
    ELSE (IF x % 2 = 1 /\ y % 2 = 1 THEN 1 ELSE 0) + 2 * BitAnd(x \div 2, y \div 2)

RECURSIVE BitOr(_, _)
BitOr(x, y) ==
    IF x = 0 THEN y
    ELSE IF y = 0 THEN x
    ELSE (IF x % 2 = 1 \/ y % 2 = 1 THEN 1 ELSE 0) + 2 * BitOr(x \div 2, y \div 2)

RECURSIVE BitXor(_, _)
BitXor(x, y) ==
    IF x = 0 THEN y
    ELSE IF y = 0 THEN x
    ELSE (IF (x % 2) # (y % 2) THEN 1 ELSE 0) + 2 * BitXor(x \div 2, y \div 2)

\* !x on u8 and on u16
Not8(x) == 255 - x
Not16(x) == 65535 - x

\* wrapping arithmetic on u8 and u16
Wrap8(x) == x % 256
Wrap16(x) == x % 65536

\* `x as i8` of a byte, as an integer
AsI8(x) == IF x >= 128 THEN x - 256 ELSE x

Bit(x, n) == (x \div (2 ^ n)) % 2

Hi(w) == (w \div 256) % 256
Lo(w) == w % 256

----------------------------------------------------------------------------
(* Memory: a Vec<u8> of fixed length.  `data` holds the non-zero bytes     *)
(* only (every Memory of the program is created zero-filled or from an     *)
(* image), so that equal contents are equal records.  An index outside     *)
(* the vector panics in Rust: `fault` records that.                        *)

Memory_new(cap, image) ==
    [cap |-> cap, data |-> image, fault |-> FALSE]

Memory_capacity(mem) == mem.cap

Memory_get(mem, address) ==
    IF address \in DOMAIN mem.data THEN mem.data[address] ELSE 0

Memory_read(mem, address) ==
    IF address < mem.cap
    THEN [val |-> Memory_get(mem, address), st |-> mem]
    ELSE [val |-> 0, st |-> [mem EXCEPT !.fault = TRUE]]

Memory_write(mem, address, value) ==
    IF address >= mem.cap THEN [mem EXCEPT !.fault = TRUE]
    ELSE IF value = 0
    THEN IF address \in DOMAIN mem.data
         THEN [mem EXCEPT !.data =
                  [a \in (DOMAIN mem.data) \ {address} |-> mem.data[a]] @@ <<>>]
         ELSE mem
    ELSE [mem EXCEPT !.data = (address :> value) @@ mem.data]

\* the empty image
NoBytes == [a \in {} |-> 0]

----------------------------------------------------------------------------
(* Mapper 0 (NROM)                                                         *)

\* Mapper0::new for a header with the given PRG-ROM / CHR-ROM / CHR-RAM
\* sizes; prg and chr are the images that follow the header.
Mapper0_new(prg_rom_size, chr_rom_size, chr_ram_size, prg, chr) ==
    [ prg_rom  |-> Memory_new(prg_rom_size, prg),
      chr_rom  |-> Memory_new(chr_rom_size, chr),
      chr_ram  |-> IF chr_rom_size = 0 /\ chr_ram_size = 0
                   THEN Memory_new(8 * 1024, NoBytes)
                   ELSE Memory_new(0, NoBytes),
      prg_ram  |-> Memory_new(8 * 1024, NoBytes),
      asserted |-> FALSE ]   \* a debug_assert!(false, ..) was reached

Mapper0_read(mp, addr) ==
    IF addr <= 8191 THEN
        IF Memory_capacity(mp.chr_rom) = 0
        THEN LET r == Memory_read(mp.chr_ram, addr)
             IN  [val |-> r.val, st |-> [mp EXCEPT !.chr_ram = r.st]]
        ELSE LET r == Memory_read(mp.chr_rom, addr)
             IN  [val |-> r.val, st |-> [mp EXCEPT !.chr_rom = r.st]]
    ELSE IF addr >= 24576 /\ addr <= 32767 THEN
        LET r == Memory_read(mp.prg_ram, addr - 24576)
        IN  [val |-> r.val, st |-> [mp EXCEPT !.prg_ram = r.st]]
    ELSE IF addr >= 32768 THEN
        LET cap   == Memory_capacity(mp.prg_rom)
            cap16 == Wrap16(cap)    \* capacity() as u16
        IN  IF addr >= 49152 /\ cap <= 16384
            THEN LET r == Memory_read(mp.prg_rom, (addr - 49152) % 16384)
                 IN  [val |-> r.val, st |-> [mp EXCEPT !.prg_rom = r.st]]
            ELSE IF cap16 = 0
            THEN \* remainder by zero
                 [val |-> 0, st |-> [mp EXCEPT !.prg_rom.fault = TRUE]]
            ELSE LET r == Memory_read(mp.prg_rom, (addr - 32768) % cap16)
                 IN  [val |-> r.val, st |-> [mp EXCEPT !.prg_rom = r.st]]
    ELSE [val |-> 0, st |-> [mp EXCEPT !.asserted = TRUE]]

Mapper0_write(mp, addr, data) ==
    IF addr <= 8191 THEN
        [mp EXCEPT !.chr_ram = Memory_write(mp.chr_ram, addr, data)]
    ELSE IF addr >= 24576 /\ addr <= 32767 THEN
        [mp EXCEPT !.prg_ram = Memory_write(mp.prg_ram, addr - 24576, data)]
    ELSE [mp EXCEPT !.asserted = TRUE]


\* The Rom that Ppu::new builds from sixteen zero bytes: no magic, so the
\* version is Unknown, the mapper number 0, all sizes 0, flag 6 = 0.
EmptyRom ==
    [ header |-> [mirroring |-> "Horizontal", mapper_number |-> 0],
      mapper |-> Mapper0_new(0, 0, 0, NoBytes, NoBytes) ]

\* Rom::new of an iNES 1.0 image with mapper 0, one 16 KiB PRG bank and no
\* CHR bank (bytes 4..7 of the header = 1, 0, flag6, 0).
NromRom(flag6_mirror, prg) ==
    [ header |-> [mirroring |-> IF flag6_mirror = 0 THEN "Horizontal" ELSE "Vertical",
                  mapper_number |-> 0],
      mapper |-> Mapper0_new(16384, 0, 0, prg, NoBytes) ]

----------------------------------------------------------------------------
(* Mapper 1 (MMC1)                                                         *)

\* `overflow` records an arithmetic overflow (an abort in a build with
\* overflow checks, a wrapped value in a build without them); `panicked` a
\* remainder by zero.
Mapper1_new(prg_rom_size, chr_rom_size, prg, chr) ==
    [ chr_rom |-> Memory_new(chr_rom_size, chr),
      prg_rom |-> Memory_new(prg_rom_size, prg),
      prg_ram |-> Memory_new(8 * 1024, NoBytes),
      shift_register |-> 16,
      shift_count |-> 0,
      control |-> 12,
      chr_bank_0 |-> 0,
      chr_bank_1 |-> 0,
      prg_bank |-> 0,
      last_write_cycle |-> 0,
      overflow |-> FALSE,
      panicked |-> FALSE ]

\* Faulty variant of Mapper1_write_register: the serial bits enter at the
\* low end, so that the first write is the most significant bit.
Mapper1_write_register_msb(mp, addr, data) ==
    IF BitAnd(data, 128) # 0
    THEN [mp EXCEPT !.shift_register = 16,
                    !.shift_count = 0,
                    !.control = BitOr(mp.control, 12)]
    ELSE LET sr    == BitAnd(BitOr(mp.shift_register * 2, BitAnd(data, 1)), 31)
             count == mp.shift_count + 1
             sel   == BitAnd(addr, 24576)
         IN  IF count = 5
             THEN [mp EXCEPT
                     !.control    = IF sel = 0     THEN sr ELSE @,
                     !.chr_bank_0 = IF sel = 8192  THEN sr ELSE @,
                     !.chr_bank_1 = IF sel = 16384 THEN sr ELSE @,
                     !.prg_bank   = IF sel = 24576 THEN sr ELSE @,
                     !.shift_register = 16,
                     !.shift_count = 0]
             ELSE [mp EXCEPT !.shift_register = sr,
                             !.shift_count = Wrap8(count),
                             !.overflow = @ \/ count > 255]

\* Faulty variant of Mapper1_write_register: a write with bit 7 set keeps
\* the count of the bits shifted so far.
Mapper1_write_register_keep(mp, addr, data) ==
    IF BitAnd(data, 128) # 0
    THEN [mp EXCEPT !.shift_register = 16,
                    !.control = BitOr(mp.control, 12)]
    ELSE LET sr    == BitOr(mp.shift_register \div 2, Wrap8(BitAnd(data, 1) * 16))
             count == mp.shift_count + 1
             sel   == BitAnd(addr, 24576)
         IN  IF count = 5
             THEN [mp EXCEPT
                     !.control    = IF sel = 0     THEN sr ELSE @,
                     !.chr_bank_0 = IF sel = 8192  THEN sr ELSE @,
                     !.chr_bank_1 = IF sel = 16384 THEN sr ELSE @,
                     !.prg_bank   = IF sel = 24576 THEN sr ELSE @,
                     !.shift_register = 16,
                     !.shift_count = 0]
             ELSE [mp EXCEPT !.shift_register = sr,
                             !.shift_count = Wrap8(count),
                             !.overflow = @ \/ count > 255]

Mapper1_write_register(mp, addr, data) ==
    IF BitAnd(data, 128) # 0
    THEN [mp EXCEPT !.shift_register = 16,
                    !.shift_count = 0,
                    !.control = BitOr(mp.control, 12)]
    ELSE LET sr    == BitOr(mp.shift_register \div 2, Wrap8(BitAnd(data, 1) * 16))
             count == mp.shift_count + 1
             sel   == BitAnd(addr, 24576)
         IN  IF count = 5
             THEN [mp EXCEPT
                     !.control    = IF sel = 0     THEN sr ELSE @,
                     !.chr_bank_0 = IF sel = 8192  THEN sr ELSE @,
                     !.chr_bank_1 = IF sel = 16384 THEN sr ELSE @,
                     !.prg_bank   = IF sel = 24576 THEN sr ELSE @,
                     !.shift_register = 16,
                     !.shift_count = 0]
             ELSE [mp EXCEPT !.shift_register = sr,
                             !.shift_count = Wrap8(count),
                             !.overflow = @ \/ count > 255]

\* (sum of two u16) % (capacity as u16), and then Memory::read
Mapper1_read_at(mp, field, sum, cap) ==
    LET cap16 == Wrap16(cap)
        over  == sum < 0 \/ sum > 65535
    IN  IF cap16 = 0
        THEN [val |-> 0, st |-> [mp EXCEPT !.panicked = TRUE,
                                           !.overflow = @ \/ over]]
        ELSE LET r == Memory_read(mp[field], Wrap16(sum + 65536) % cap16)
             IN  [val |-> r.val,
                  st  |-> [mp EXCEPT ![field] = r.st, !.overflow = @ \/ over]]

Mapper1_read(mp, addr) ==
    IF addr <= 8191 THEN
        LET chr_mode == (mp.control \div 16) % 2
            cap      == Memory_capacity(mp.chr_rom)
            \* bank * 0x1000 and its sum with the address are u16 arithmetic
            Banked(a, bank) ==
                IF bank * 4096 > 65535
                THEN LET r == Mapper1_read_at(mp, "chr_rom",
                                              a + Wrap16(bank * 4096), cap)
                     IN  [val |-> r.val, st |-> [r.st EXCEPT !.overflow = TRUE]]
                ELSE Mapper1_read_at(mp, "chr_rom", a + bank * 4096, cap)
        IN  IF chr_mode = 0 THEN Banked(addr, BitAnd(mp.chr_bank_0, 30))
            ELSE IF addr < 4096 THEN Banked(addr, mp.chr_bank_0)
            ELSE Banked(addr - 4096, mp.chr_bank_1)
    ELSE IF addr >= 24576 /\ addr <= 32767 THEN
        LET r == Memory_read(mp.prg_ram, addr - 24576)
        IN  [val |-> r.val, st |-> [mp EXCEPT !.prg_ram = r.st]]
    ELSE IF addr >= 32768 THEN
        LET prg_mode == (mp.control \div 4) % 4
            cap      == Memory_capacity(mp.prg_rom)
            \* ((a as u32) + bank * 0x4000) as u16, then % capacity
            Switched(a, bank) ==
                Mapper1_read_at(mp, "prg_rom", Wrap16(a + bank * 16384), cap)
        IN  IF prg_mode <= 1 THEN Switched(addr - 32768, BitAnd(mp.prg_bank, 14))
            ELSE IF prg_mode = 2 THEN
                IF addr < 49152
                THEN Mapper1_read_at(mp, "prg_rom", addr - 32768, cap)
                ELSE Switched(addr - 49152, mp.prg_bank)
            ELSE
                IF addr >= 49152
                THEN \* (addr - 0xC000) + (capacity as u16 - 0x4000)
                     IF Wrap16(cap) < 16384
                     THEN LET r == Mapper1_read_at(
                                       mp, "prg_rom",
                                       Wrap16((addr - 49152)
                                              + Wrap16(Wrap16(cap) - 16384 + 65536)),
                                       cap)
                          IN  [val |-> r.val, st |-> [r.st EXCEPT !.overflow = TRUE]]
                     ELSE Mapper1_read_at(mp, "prg_rom",
                                          (addr - 49152) + (Wrap16(cap) - 16384), cap)
                ELSE Switched(addr - 32768, mp.prg_bank)
    ELSE [val |-> 0, st |-> mp]

Mapper1_write(mp, addr, data) ==
    IF addr <= 8191 THEN
        [mp EXCEPT !.chr_rom = Memory_write(mp.chr_rom, addr, data)]
    ELSE IF addr >= 24576 /\ addr <= 32767 THEN
        [mp EXCEPT !.prg_ram = Memory_write(mp.prg_ram, addr - 24576, data)]
    ELSE IF addr >= 32768 THEN Mapper1_write_register(mp, addr, data)
    ELSE mp

----------------------------------------------------------------------------
(* Cartridge images: header, mapper selection, Rom::new                     *)

\* An image (the Vec<u8> given to Rom::new) is its length and its non-zero
\* bytes, indexed from 0.
Image_byte(img, k) == IF k \in DOMAIN img.bytes THEN img.bytes[k] ELSE 0

\* data[from .. from + size].to_vec(), re-indexed from 0
Image_slice(img, from, size) ==
    LET dom == {k \in DOMAIN img.bytes : k >= from /\ k < from + size}
    IN  [a \in {k - from : k \in dom} |-> img.bytes[a + from]] @@ <<>>

\* 1 << n
Pow2(n) == 2 ^ n

RomHeader_new(img) ==
    LET D(k)   == Image_byte(img, k)
        magic  == D(0) = 78 /\ D(1) = 69 /\ D(2) = 83 /\ D(3) = 26
        flag_6 == D(6)
        flag_7 == D(7)
        nes_version ==
            IF ~magic THEN "Unknown"
            ELSE IF BitAnd(flag_7, 12) = 8 THEN "Two" ELSE "One"
        \* u8 arithmetic: upper_nibble << 4 keeps the low eight bits
        lower_nibble == BitAnd(flag_6 \div 16, 15)
        upper_nibble == BitAnd(flag_7, 240)
        mapper_number ==
            CASE nes_version = "One" ->
                     BitOr(Wrap8(upper_nibble * 16), lower_nibble)
              [] nes_version = "Two" ->
                     BitOr(BitAnd(D(8), 15) * 256,
                           BitOr(flag_6 \div 16, BitAnd(flag_7, 240)))
              [] OTHER -> 0
        mirroring ==
            IF BitAnd(flag_6, 8) # 0 THEN "FourScreen"
            ELSE IF BitAnd(flag_6, 1) = 0 THEN "Horizontal" ELSE "Vertical"
        prg_rom_size ==
            CASE nes_version = "One" -> D(4) * 16 * 1024
              [] nes_version = "Two" ->
                     IF D(4) # 0 THEN D(4) * Pow2(BitAnd(D(9) \div 16, 15)) ELSE 0
              [] OTHER -> 0
        chr_rom_size ==
            CASE nes_version = "One" -> D(5) * 8 * 1024
              [] nes_version = "Two" ->
                     IF D(5) # 0 THEN D(5) * Pow2(BitAnd(D(9), 15)) ELSE 0
              [] OTHER -> 0
        chr_ram_size ==
            IF nes_version = "Two" /\ BitAnd(D(11), 15) # 0
            THEN Pow2(BitAnd(D(11), 15) + 6) ELSE 0
    IN  [ nes_version |-> nes_version,
          mapper_number |-> mapper_number,
          mirroring |-> mirroring,
          prg_rom_size |-> prg_rom_size,
          chr_rom_size |-> chr_rom_size,
          chr_ram_size |-> chr_ram_size ]

HEADER_SIZE == 16

\* The mapper constructors slice the image: a slice past its end panics.
\* `ok` is FALSE when the selection panics.
MapperFactory_select(header, img) ==
    LET prg == Image_slice(img, HEADER_SIZE, header.prg_rom_size)
        chr == Image_slice(img, HEADER_SIZE + header.prg_rom_size,
                           header.chr_rom_size)
        fits == img.len >= HEADER_SIZE + header.prg_rom_size + header.chr_rom_size
    IN  CASE header.mapper_number = 0 /\ fits ->
                 [ok |-> TRUE,
                  mapper |-> Mapper0_new(header.prg_rom_size, header.chr_rom_size,
                                         header.chr_ram_size, prg, chr)]
          [] header.mapper_number = 1 /\ fits ->
                 [ok |-> TRUE,
                  mapper |-> Mapper1_new(header.prg_rom_size, header.chr_rom_size,
                                         prg, chr)]
          [] OTHER -> [ok |-> FALSE, mapper |-> EmptyRom.mapper]

\* Rom::new: `ok` is FALSE when the construction panics
Rom_new(img) ==
    IF img.len < HEADER_SIZE
    THEN [ok |-> FALSE, rom |-> EmptyRom]
    ELSE LET Build(header, sel) ==
                 IF ~sel.ok
                 THEN [ok |-> FALSE, rom |-> EmptyRom]
                 ELSE [ok |-> TRUE,
                       rom |-> [header |-> [mirroring |-> header.mirroring,
                                            mapper_number |-> header.mapper_number],
                                mapper |-> sel.mapper]]
             Select(header) == Build(header, MapperFactory_select(header, img))
         IN  Select(RomHeader_new(img))

\* dyn Mapper dispatch (Box<dyn Mapper>): a Mapper1 is the record with a
\* shift register
Mapper_is_m1(mp) == "shift_register" \in DOMAIN mp

Mapper_read(mp, addr) ==
    IF Mapper_is_m1(mp) THEN Mapper1_read(mp, addr) ELSE Mapper0_read(mp, addr)

Mapper_write(mp, addr, data) ==
    IF Mapper_is_m1(mp) THEN Mapper1_write(mp, addr, data)
    ELSE Mapper0_write(mp, addr, data)

----------------------------------------------------------------------------
(* Ppu                                                                     *)

PPU_VRAM_SIZE == 2048
NUM_SCANLINES == 262
CYCLERS_PER_SCANLINE == 341

\* oam[4*i + k] is field k (y, tile, attr, x) of sprite i of `oam: [Sprite; 64]`
Ppu_new ==
    [ ctrl |-> 0, mask |-> 0, status |-> 0, oamaddr |-> 0,
      v |-> 0, t |-> 0, x |-> 0, w |-> FALSE,
      odd_frame |-> FALSE,
      vram_buffer |-> 0, open_bus |-> 0,
      vram |-> Memory_new(PPU_VRAM_SIZE, NoBytes),
      rom |-> EmptyRom,
      palette |-> Memory_new(32, NoBytes),
      oam |-> Memory_new(256, NoBytes),     \* byte 4*i + k is field k of sprite i
      trigger_nmi |-> FALSE,
      secondary_oam |-> [k \in 1..8 |-> 255],
      sprite_cache |-> [pos \in {} |-> 0],  \* entries other than 0xFFFF
      frame_buffer |-> Memory_new(256 * 240 * 3, NoBytes),
      nt_byte |-> 0, at_byte |-> 0,
      at_latch_lo |-> 0, at_latch_hi |-> 0,
      pt_latch_lo |-> 0, pt_latch_hi |-> 0,
      at_shifter_lo |-> 0, at_shifter_hi |-> 0,
      pt_shifter_lo |-> 0, pt_shifter_hi |-> 0,
      cycle |-> 0, scanline |-> 0,
      frame_ready |-> FALSE,
      \* an arithmetic overflow in fetch_sprite: aborts a build with
      \* overflow checks, wraps in a build without them
      overflow |-> FALSE ]

Ppu_is_rendering_enabled(p) == BitAnd(p.mask, 24) # 0

Ppu_map_vram_addr(p, addr0) ==
    LET addr1     == BitAnd(addr0, 16383)
        addr      == IF addr1 >= 12288 THEN addr1 - 4096 ELSE addr1
        nametable == ((addr - 8192) \div 1024) % 4
        offset    == (addr - 8192) % 1024
        mapped_table ==
            CASE p.rom.header.mirroring = "Horizontal"   -> IF nametable < 2 THEN 0 ELSE 1
              [] p.rom.header.mirroring = "Vertical"     -> nametable % 2
              [] p.rom.header.mirroring = "SingleScreen" -> 0
              [] p.rom.header.mirroring = "FourScreen"   -> nametable
    IN  (mapped_table * 1024) + offset

Ppu_read(p, addr) ==
    LET m_addr == BitAnd(addr, 16383)
    IN  IF m_addr < 8192 THEN
            LET r == Invoke("Mapper_read", <<p.rom.mapper, m_addr>>)
            IN  [val |-> r.val, st |-> [p EXCEPT !.rom.mapper = r.st]]
        ELSE IF m_addr < 16128 THEN
            LET r == Memory_read(p.vram, Ppu_map_vram_addr(p, m_addr))
            IN  [val |-> r.val, st |-> [p EXCEPT !.vram = r.st]]
        ELSE [val |-> Memory_get(p.palette, (m_addr - 16128) % 32), st |-> p]

RECURSIVE Ppu_write(_, _, _)
\* Faulty variant of Ppu_write: a palette entry is stored once.
Ppu_write_once(p, addr, data) ==
    LET m_addr == BitAnd(addr, 16383)
        q      == [p EXCEPT !.open_bus = data]
    IN  IF m_addr < 8192 THEN q
        ELSE IF m_addr < 12288 THEN
            [q EXCEPT !.vram = Memory_write(q.vram, Ppu_map_vram_addr(q, m_addr), data)]
        ELSE IF m_addr < 16128 THEN
            Ppu_write(q, addr - 4096, data)
        ELSE
            [q EXCEPT !.palette = Memory_write(@, (m_addr - 16128) % 32, data)]

Ppu_write(p, addr, data) ==
    LET m_addr == BitAnd(addr, 16383)
        q      == [p EXCEPT !.open_bus = data]
    IN  IF m_addr < 8192 THEN q
        ELSE IF m_addr < 12288 THEN
            [q EXCEPT !.vram = Memory_write(q.vram, Ppu_map_vram_addr(q, m_addr), data)]
        ELSE IF m_addr < 16128 THEN
            Ppu_write(q, addr - 4096, data)
        ELSE
            LET i  == (m_addr - 16128) % 32
                p1 == [q EXCEPT !.palette = Memory_write(@, i, data)]
            IN  IF i % 4 = 0
                THEN [p1 EXCEPT !.palette = Memory_write(@, BitXor(i, 16), data)]
                ELSE p1

(* PPU registers, as called from Bus::read / Bus::write                    *)

\* a read of $2002 that leaves the VBlank flag set
Ppu_read_status_keep(p) ==
    LET data == p.status
    IN  [val |-> data,
         st  |-> [p EXCEPT !.w        = FALSE,
                           !.open_bus = BitOr(BitAnd(data, 224), BitAnd(p.open_bus, 31))]]

Ppu_read_status(p) ==
    LET data == p.status
    IN  [val |-> data,
         st  |-> [p EXCEPT !.status   = BitAnd(p.status, Not8(128)),
                           !.w        = FALSE,
                           !.open_bus = BitOr(BitAnd(data, 224), BitAnd(p.open_bus, 31))]]

Ppu_read_oam(p) == 255

\* an increment of v that is not cut to 15 bits
Ppu_increment_vram_addr_unmasked(p) ==
    LET increment == IF BitAnd(p.ctrl, 4) # 0 THEN 32 ELSE 1
    IN  [p EXCEPT !.v = Wrap16(p.v + increment)]

Ppu_increment_vram_addr(p) ==
    LET increment == IF BitAnd(p.ctrl, 4) # 0 THEN 32 ELSE 1
    IN  [p EXCEPT !.v = BitAnd(p.v + increment, 32767)]

Ppu_read_data(p) ==
    IF BitAnd(p.v, 16383) >= 16128
    THEN LET r == Invoke("Ppu_read", <<p, p.v>>)
         IN  [val |-> r.val, st |-> Ppu_increment_vram_addr(r.st)]
    ELSE LET previous_buffer == p.vram_buffer
             r == Invoke("Ppu_read", <<p, p.v>>)
         IN  [val |-> previous_buffer,
              st  |-> Ppu_increment_vram_addr([r.st EXCEPT !.vram_buffer = r.val])]

Ppu_write_ctrl(p, data) ==
    LET old_ctrl == p.ctrl
        \* `self.ctrl & 0x80 == 1` and `self.status & 0x80 == 1` compare a
        \* masked byte (0 or 0x80) with 1
        nmi == BitAnd(old_ctrl, 128) = 0 /\ BitAnd(data, 128) = 1
               /\ BitAnd(p.status, 128) = 1
    IN  [p EXCEPT !.ctrl = data,
                  !.trigger_nmi = IF nmi THEN TRUE ELSE p.trigger_nmi,
                  !.t = BitOr(BitAnd(p.t, 62463), BitAnd(data, 3) * 1024)]

Ppu_write_mask(p, data) == [p EXCEPT !.mask = data]

Ppu_write_oamaddr(p, data) == [p EXCEPT !.oamaddr = data]

\* Faulty variant of Ppu_write_oamdata: oamaddr does not wrap at 256.
Ppu_write_oamdata_nowrap(p, data) ==
    LET sprite_index == p.oamaddr \div 4
        byte_offset  == p.oamaddr % 4
        q == IF sprite_index < 64
             THEN [p EXCEPT !.oam = Memory_write(@, 4 * sprite_index + byte_offset, data)]
             ELSE p
    IN  [q EXCEPT !.oamaddr = p.oamaddr + 1]

Ppu_write_oamdata(p, data) ==
    LET sprite_index == p.oamaddr \div 4
        byte_offset  == p.oamaddr % 4
        q == IF sprite_index < 64
             THEN [p EXCEPT !.oam = Memory_write(@, 4 * sprite_index + byte_offset, data)]
             ELSE p
    IN  [q EXCEPT !.oamaddr = Wrap8(p.oamaddr + 1)]

\* a $2005 write that leaves the toggle as it was
Ppu_write_scroll_keep(p, data) ==
    IF ~p.w
    THEN [p EXCEPT !.x = BitAnd(data, 7),
                   !.t = BitOr(BitAnd(p.t, 65504), data \div 8)]
    ELSE [p EXCEPT !.t = BitOr(BitOr(BitAnd(p.t, 35871), BitAnd(data, 248) * 4),
                               BitAnd(data, 7) * 4096)]

Ppu_write_scroll(p, data) ==
    IF ~p.w
    THEN [p EXCEPT !.x = BitAnd(data, 7),
                   !.t = BitOr(BitAnd(p.t, 65504), data \div 8),
                   !.w = TRUE]
    ELSE [p EXCEPT !.t = BitOr(BitOr(BitAnd(p.t, 35871), BitAnd(data, 248) * 4),
                               BitAnd(data, 7) * 4096),
                   !.w = FALSE]

Ppu_write_addr(p, data) ==
    IF ~p.w
    THEN [p EXCEPT !.t = BitOr(BitAnd(p.t, 255), BitAnd(data, 63) * 256),
                   !.w = TRUE]
    ELSE LET nt == BitOr(BitAnd(p.t, 65280), data)
         IN  [p EXCEPT !.t = nt, !.v = nt, !.w = FALSE]

Ppu_write_data(p, data) ==
    Ppu_increment_vram_addr(Ppu_write(p, p.v, data))

(* PPU dot engine                                                          *)

Ppu_increment_h(p) ==
    IF BitAnd(p.v, 31) = 31
    THEN [p EXCEPT !.v = BitXor(BitAnd(p.v, Not16(31)), 1024)]
    ELSE [p EXCEPT !.v = p.v + 1]

Ppu_increment_v(p) ==
    IF BitAnd(p.v, 28672) # 28672
    THEN [p EXCEPT !.v = p.v + 4096]
    ELSE LET v1 == BitAnd(p.v, Not16(28672))
             y  == BitAnd(v1, 992) \div 32
             v2 == IF y = 29 THEN BitXor(v1, 2048) ELSE v1
             y2 == IF y = 29 THEN 0 ELSE IF y = 31 THEN 0 ELSE y + 1
         IN  [p EXCEPT !.v = BitOr(BitAnd(v2, Not16(992)), y2 * 32)]

\* a horizontal copy of the coarse x only, without the nametable bit
Ppu_copy_h_coarse_x(p) ==
    [p EXCEPT !.v = BitOr(BitAnd(p.v, Not16(31)), BitAnd(p.t, 31))]

Ppu_copy_h(p) ==
    [p EXCEPT !.v = BitOr(BitAnd(p.v, Not16(1055)), BitAnd(p.t, 1055))]

Ppu_copy_v(p) ==
    LET y_mask == 28672 + 2048 + 992
    IN  [p EXCEPT !.v = BitOr(BitAnd(p.v, Not16(y_mask)), BitAnd(p.t, y_mask))]

\* Faulty variant of Ppu_update_scroll: v is updated whether rendering is
\* enabled or not.
Ppu_update_scroll_always(p) ==
    IF p.scanline < 240 \/ p.scanline = 261 THEN
        LET IncH(q) == IF p.cycle > 0 /\ p.cycle <= 256
                       THEN (IF p.cycle % 8 = 0 THEN Ppu_increment_h(q) ELSE q)
                       ELSE IF p.cycle >= 321 /\ p.cycle <= 336
                       THEN (IF p.cycle % 8 = 0 THEN Ppu_increment_h(q) ELSE q)
                       ELSE q
            IncV(q)  == IF p.cycle = 256 THEN Ppu_increment_v(q) ELSE q
            CopyH(q) == IF p.cycle = 257 THEN Ppu_copy_h(q) ELSE q
            CopyV(q) == IF p.scanline = 261 /\ p.cycle >= 280 /\ p.cycle <= 304
                        THEN Ppu_copy_v(q) ELSE q
        IN  CopyV(CopyH(IncV(IncH(p))))
    ELSE p

Ppu_update_scroll(p) ==
    IF ~Ppu_is_rendering_enabled(p) THEN p
    ELSE IF p.scanline < 240 \/ p.scanline = 261 THEN
        LET IncH(q) == IF p.cycle > 0 /\ p.cycle <= 256
                       THEN (IF p.cycle % 8 = 0 THEN Ppu_increment_h(q) ELSE q)
                       ELSE IF p.cycle >= 321 /\ p.cycle <= 336
                       THEN (IF p.cycle % 8 = 0 THEN Ppu_increment_h(q) ELSE q)
                       ELSE q
            IncV(q)  == IF p.cycle = 256 THEN Ppu_increment_v(q) ELSE q
            CopyH(q) == IF p.cycle = 257 THEN Ppu_copy_h(q) ELSE q
            CopyV(q) == IF p.scanline = 261 /\ p.cycle >= 280 /\ p.cycle <= 304
                        THEN Ppu_copy_v(q) ELSE q
        IN  CopyV(CopyH(IncV(IncH(p))))
    ELSE p

\* Scanline::from
Scanline_from(scanline) ==
    CASE scanline <= 239 -> "Visible"
      [] scanline = 240  -> "PostRender"
      [] scanline >= 241 /\ scanline <= 260 -> "VBlank"
      [] scanline = 261  -> "PreRender"

(* The pixel pipeline of Ppu::step                                         *)

\* PALETTE: 64 colours, three bytes each
PALETTE ==
    <<
       124, 124, 124, 0, 0, 252, 0, 0, 188, 68, 40, 188,
       148, 0, 132, 168, 0, 32, 168, 16, 0, 136, 20, 0,
       80, 48, 0, 0, 120, 0, 0, 104, 0, 0, 88, 0,
       0, 64, 88, 0, 0, 0, 0, 0, 0, 0, 0, 0,
       188, 188, 188, 0, 120, 248, 0, 88, 248, 104, 68, 252,
       216, 0, 204, 228, 0, 88, 248, 56, 0, 228, 92, 16,
       172, 124, 0, 0, 184, 0, 0, 168, 0, 0, 168, 68,
       0, 136, 136, 0, 0, 0, 0, 0, 0, 0, 0, 0,
       248, 248, 248, 60, 188, 252, 104, 136, 252, 152, 120, 248,
       248, 120, 248, 248, 88, 152, 248, 120, 88, 252, 160, 68,
       248, 184, 0, 184, 248, 24, 88, 216, 84, 88, 248, 152,
       0, 232, 216, 120, 120, 120, 0, 0, 0, 0, 0, 0,
       252, 252, 252, 164, 228, 252, 184, 184, 248, 216, 184, 248,
       248, 184, 248, 248, 164, 192, 240, 208, 176, 252, 224, 168,
       248, 216, 120, 216, 248, 120, 184, 248, 184, 184, 248, 216,
       0, 252, 252, 248, 216, 248, 0, 0, 0, 0, 0, 0
    >>

Ppu_is_sprite_rendering_enabled(p) == BitAnd(p.mask, 16) # 0
Ppu_sprite_height(p) == IF BitAnd(p.ctrl, 32) # 0 THEN 16 ELSE 8
Ppu_is_bg_rendering_enabled(p) == BitAnd(p.mask, 8) # 0
Ppu_is_leftmost_bg_rendering_enabled(p) == BitAnd(p.mask, 2) # 0
Ppu_is_leftmost_sprite_rendering_enabled(p) == BitAnd(p.mask, 4) # 0
Ppu_bg_pattern_table_address(p) == IF BitAnd(p.ctrl, 16) # 0 THEN 4096 ELSE 0
Ppu_fine_y(p) == (p.v \div 4096) % 8
Ppu_coarse_y(p) == BitAnd(p.v, 992) \div 32
Ppu_coarse_x(p) == BitAnd(p.v, 31)

\* u8::reverse_bits: bit k of the result is bit 7 - k of x
Ppu_reverse_byte(x) ==
    Bit(x, 0) * 128 + Bit(x, 1) * 64 + Bit(x, 2) * 32 + Bit(x, 3) * 16
    + Bit(x, 4) * 8 + Bit(x, 5) * 4 + Bit(x, 6) * 2 + Bit(x, 7)

\* sprite_cache: the entries other than 0xFFFF, by position
NoSprites == [pos \in {} |-> 0]

\* the body of the loop of fetch_sprite, from slot i of secondary_oam on
RECURSIVE Ppu_fetch_sprite_from(_, _)
Ppu_fetch_sprite_from(p, i) ==
    IF i >= 8 THEN p
    ELSE
    LET j == p.secondary_oam[i + 1]
    IN  IF j = 255 THEN p
        ELSE
        LET y      == Memory_get(p.oam, 4 * j)
            tile   == Memory_get(p.oam, 4 * j + 1)
            attr   == Memory_get(p.oam, 4 * j + 2)
            x      == Memory_get(p.oam, 4 * j + 3)
            v_flip == BitAnd(attr, 128) # 0
            h_flip == BitAnd(attr, 64) # 0
            h      == Ppu_sprite_height(p)
            y0     == (p.scanline - y) % 256
            row    == IF v_flip THEN (h - 1 - y0) % 256 ELSE y0
            wraps  == p.scanline < y \/ (v_flip /\ y0 > h - 1)
            pt     == IF h = 8 THEN BitAnd(p.ctrl, 8) * 512 ELSE (tile % 2) * 4096
            tile_num == IF h = 8 THEN tile ELSE BitOr(BitAnd(tile, 254), row \div 8)
            yy     == IF h = 8 THEN row ELSE row % 8
            addr   == BitOr(BitOr(pt, tile_num * 16), yy)
            palette == attr % 4
            x_max  == IF x + 8 < 256 THEN x + 8 ELSE 256
            \* the two reads of the pattern table
            Planes(a) ==
                LET lo == Invoke("Ppu_read", <<p, a>>)
                    hi == Invoke("Ppu_read", <<lo.st, a + 8>>)
                IN  [lo |-> lo.val, hi |-> hi.val, st |-> hi.st]
            \* the loop over the eight pixels of the row
            Pixels(pt_lo, pt_hi, new) ==
                [pos \in (DOMAIN p.sprite_cache) \cup new |->
                    IF pos \in new
                    THEN (IF j = 0 THEN 32768 ELSE 0) + Bit(attr, 5) * 256
                         + palette * 4 + Bit(pt_hi, x_max - 1 - pos) * 2
                         + Bit(pt_lo, x_max - 1 - pos)
                    ELSE p.sprite_cache[pos]]
            Cache(pt_lo, pt_hi) ==
                Pixels(pt_lo, pt_hi,
                       {pos \in x .. (x_max - 1) :
                           /\ pos \notin DOMAIN p.sprite_cache
                           /\ Bit(pt_hi, x_max - 1 - pos) * 2
                              + Bit(pt_lo, x_max - 1 - pos) # 0})
            Fill(f) ==
                [f.st EXCEPT
                   !.sprite_cache =
                       Cache(IF h_flip THEN Ppu_reverse_byte(f.lo) ELSE f.lo,
                             IF h_flip THEN Ppu_reverse_byte(f.hi) ELSE f.hi),
                   !.overflow = @ \/ wraps]
            Rest(q) == IF q.overflow \in BOOLEAN
                       THEN Ppu_fetch_sprite_from(q, i + 1) ELSE q
        IN  Rest(Fill(Planes(addr)))

Ppu_fetch_sprite(p) ==
    Ppu_fetch_sprite_from([p EXCEPT !.sprite_cache = NoSprites], 0)

Ppu_evaluate_sprites(p) ==
    IF p.cycle = 1 THEN [p EXCEPT !.secondary_oam = [k \in 1..8 |-> 255]]
    ELSE IF p.cycle = 65 THEN
        LET sp_h   == Ppu_sprite_height(p)
            hit(y) == y <= p.scanline /\ p.scanline < y + sp_h
            found  == {i \in 0..63 : hit(Memory_get(p.oam, 4 * i))}
            Nth(k) == CHOOSE i \in found : Cardinality({m \in found : m < i}) = k
            n_idx  == IF Cardinality(found) < 8 THEN Cardinality(found) ELSE 8
            n      == IF n_idx = 8 THEN Nth(7) + 1 ELSE 0
            any    == \E b \in 0..255 : hit(Memory_get(p.oam, b))
        IN  [p EXCEPT !.secondary_oam =
                          [k \in 1..8 |-> IF k <= n_idx THEN Nth(k - 1) ELSE @[k]],
                      !.status = IF n = 8 /\ any THEN BitOr(@, 32) ELSE @]
    ELSE IF p.cycle = 257 THEN Ppu_fetch_sprite(p)
    ELSE p

Ppu_get_nt(p) == Invoke("Ppu_read", <<p, BitOr(8192, BitAnd(p.v, 4095))>>)

Ppu_get_attribute(p) ==
    Invoke("Ppu_read", <<p, BitOr(BitOr(9152, BitAnd(p.v, 3072)),
                      BitOr(BitAnd(p.v \div 16, 56), BitAnd(p.v \div 4, 7)))>>)

Ppu_reload_shifters(p) ==
    [p EXCEPT !.pt_shifter_lo = BitAnd(@, 65280) + p.pt_latch_lo,
              !.pt_shifter_hi = BitAnd(@, 65280) + p.pt_latch_hi,
              !.at_latch_lo = BitAnd(p.at_byte, 1),
              !.at_latch_hi = BitAnd(p.at_byte, 2)]

Ppu_load_shift_registers(p) ==
    IF (p.cycle >= 1 /\ p.cycle <= 256) \/ (p.cycle >= 321 /\ p.cycle <= 336) THEN
        LET phase == (p.cycle - 1) % 8
            addr  == Ppu_bg_pattern_table_address(p) + (p.nt_byte * 16) + Ppu_fine_y(p)
        IN  CASE phase = 0 ->
                    LET r == Ppu_get_nt(p) IN [r.st EXCEPT !.nt_byte = r.val]
              [] phase = 2 ->
                    LET ShiftY(q, at) == IF BitAnd(Ppu_coarse_y(q), 2) # 0
                                         THEN at \div 16 ELSE at
                        ShiftX(q, at) == IF BitAnd(Ppu_coarse_x(q), 2) # 0
                                         THEN at \div 4 ELSE at
                        Quadrant(q, at) ==
                            [q EXCEPT !.at_byte = ShiftX(q, ShiftY(q, at))]
                        r == Ppu_get_attribute(p)
                    IN  Quadrant(r.st, r.val)
              [] phase = 4 ->
                    LET r == Invoke("Ppu_read", <<p, addr>>) IN [r.st EXCEPT !.pt_latch_lo = r.val]
              [] phase = 6 ->
                    LET r == Invoke("Ppu_read", <<p, addr + 8>>) IN [r.st EXCEPT !.pt_latch_hi = r.val]
              [] phase = 7 -> Ppu_reload_shifters(p)
              [] OTHER -> p
    ELSE IF p.cycle >= 257 /\ p.cycle <= 320 THEN
        IF p.cycle = 257 THEN Ppu_reload_shifters(p) ELSE p
    ELSE IF p.cycle = 337 \/ p.cycle = 339 THEN
        LET r == Ppu_get_nt(p) IN [r.st EXCEPT !.nt_byte = r.val]
    ELSE p

Ppu_load_pixel(p) ==
    IF p.scanline >= 240 \/ p.cycle > 256 \/ p.cycle = 0 THEN p
    ELSE
    LET fine_x == p.x % 8
        shift  == 15 - fine_x
        bg_on  == Ppu_is_bg_rendering_enabled(p)
                  /\ (p.cycle >= 8 \/ Ppu_is_leftmost_bg_rendering_enabled(p))
        bg_pixel   == IF bg_on
                      THEN Bit(p.pt_shifter_hi, shift) * 2 + Bit(p.pt_shifter_lo, shift)
                      ELSE 0
        bg_palette == IF bg_on
                      THEN (BitOr((Bit(p.at_shifter_hi, 7 - fine_x) * 2) % 256,
                                  Bit(p.at_shifter_lo, 7 - fine_x)) * 4) % 256
                      ELSE 0
        x      == p.cycle - 1
        sp_on  == Ppu_is_sprite_rendering_enabled(p)
                  /\ (p.cycle >= 8 \/ Ppu_is_leftmost_sprite_rendering_enabled(p))
                  /\ x \in DOMAIN p.sprite_cache
        sp     == IF sp_on THEN p.sprite_cache[x] ELSE 0
        zero_hit == sp_on /\ sp \div 32768 = 1 /\ bg_pixel # 0 /\ x # 255
        sprite_priority == sp_on /\ Bit(sp, 8) # 0
        sprite_pixel    == IF sp_on THEN sp % 4 ELSE 0
        sprite_palette  == IF sp_on /\ sprite_pixel # 0
                           THEN BitOr(BitAnd(sp % 256, 12), 16) ELSE 0
        \* (final_pixel, final_palette) of the match on the two pixels
        Final(bg_px, bg_pal, sp_px, sp_pal) ==
            CASE bg_px = 0 /\ sp_px = 0 -> <<0, 0>>
              [] bg_px = 0 /\ sp_px # 0 -> <<sp_px, sp_pal>>
              [] bg_px # 0 /\ sp_px = 0 -> <<bg_px, bg_pal>>
              [] OTHER -> IF sprite_priority
                          THEN <<bg_px, bg_pal>> ELSE <<sp_px, sp_pal>>
        PaletteIdx(final) == IF final[1] = 0 THEN 0 ELSE BitOr(final[2], final[1])
        Color(palette_idx) == BitAnd(Memory_get(p.palette, palette_idx), 63)
        idx    == (p.scanline * 256 + x) * 3
        \* the three bytes of the colour, stored at idx, idx + 1, idx + 2
        Plot(color) ==
            Memory_write(
                Memory_write(
                    Memory_write(p.frame_buffer, idx, PALETTE[color * 3 + 1]),
                    idx + 1, PALETTE[color * 3 + 2]),
                idx + 2, PALETTE[color * 3 + 3])
    IN  [p EXCEPT !.status = IF zero_hit THEN BitOr(@, 64) ELSE @,
                  !.frame_buffer =
                      Plot(Color(PaletteIdx(Final(bg_pixel, bg_palette,
                                                  sprite_pixel, sprite_palette)))),
                  !.pt_shifter_lo = (@ * 2) % 65536,
                  !.pt_shifter_hi = (@ * 2) % 65536,
                  !.at_shifter_lo = BitOr((@ * 2) % 256, p.at_latch_lo),
                  !.at_shifter_hi = BitOr((@ * 2) % 256, p.at_latch_hi)]

\* Faulty variant of Ppu_step: dot 1 of the pre-render scanline clears the
\* status flags.
Ppu_step_clear_status(p) ==
    LET render == Ppu_is_rendering_enabled(p)
        kind   == Scanline_from(p.scanline)
        p1 == CASE kind = "PreRender" ->
                     LET a == IF p.cycle = 0
                              THEN [p EXCEPT !.odd_frame = ~p.odd_frame]
                              ELSE IF p.cycle = 1
                              THEN [p EXCEPT !.status = 0] ELSE p
                     IN  IF render
                         THEN Invoke("Ppu_load_shift_registers", <<Invoke("Ppu_load_pixel", <<a>>)>>) ELSE a
                [] kind = "Visible" ->
                     IF render
                     THEN Invoke("Ppu_load_shift_registers", <<
                              Invoke("Ppu_load_pixel", <<Invoke("Ppu_evaluate_sprites", <<p>>)>>)>>)
                     ELSE p
                [] kind = "PostRender" -> p
                [] kind = "VBlank" ->
                     IF p.scanline = 241 /\ p.cycle = 1
                     THEN IF BitAnd(p.ctrl, 128) # 0
                          THEN [p EXCEPT !.status = BitOr(p.status, 128),
                                         !.trigger_nmi = TRUE,
                                         !.frame_ready = TRUE]
                          ELSE [p EXCEPT !.status = BitOr(p.status, 128)]
                     ELSE p
        Advance(q) ==
            IF q.scanline = 261 /\ q.cycle = 339 /\ q.odd_frame /\ render
            THEN [q EXCEPT !.cycle = 0, !.scanline = 0]
            ELSE IF q.cycle + 1 >= CYCLERS_PER_SCANLINE
                 THEN [q EXCEPT !.cycle = 0,
                                !.scanline = (q.scanline + 1) % NUM_SCANLINES]
                 ELSE [q EXCEPT !.cycle = q.cycle + 1]
    IN  Ppu_update_scroll(Advance(p1))

\* Ppu::step
Ppu_step(p) ==
    LET render == Ppu_is_rendering_enabled(p)
        kind   == Scanline_from(p.scanline)
        p1 == CASE kind = "PreRender" ->
                     LET a == IF p.cycle = 0
                              THEN [p EXCEPT !.odd_frame = ~p.odd_frame] ELSE p
                     IN  IF render
                         THEN Invoke("Ppu_load_shift_registers", <<Invoke("Ppu_load_pixel", <<a>>)>>) ELSE a
                [] kind = "Visible" ->
                     IF render
                     THEN Invoke("Ppu_load_shift_registers", <<
                              Invoke("Ppu_load_pixel", <<Invoke("Ppu_evaluate_sprites", <<p>>)>>)>>)
                     ELSE p
                [] kind = "PostRender" -> p
                [] kind = "VBlank" ->
                     IF p.scanline = 241 /\ p.cycle = 1
                     THEN IF BitAnd(p.ctrl, 128) # 0
                          THEN [p EXCEPT !.status = BitOr(p.status, 128),
                                         !.trigger_nmi = TRUE,
                                         !.frame_ready = TRUE]
                          ELSE [p EXCEPT !.status = BitOr(p.status, 128)]
                     ELSE p
        \* the advance of the dot and scanline counters
        Advance(q) ==
            IF q.scanline = 261 /\ q.cycle = 339 /\ q.odd_frame /\ render
            THEN [q EXCEPT !.cycle = 0, !.scanline = 0]
            ELSE IF q.cycle + 1 >= CYCLERS_PER_SCANLINE
                 THEN [q EXCEPT !.cycle = 0,
                                !.scanline = (q.scanline + 1) % NUM_SCANLINES]
                 ELSE [q EXCEPT !.cycle = q.cycle + 1]
    IN  Ppu_update_scroll(Advance(p1))

----------------------------------------------------------------------------
(* Controller                                                              *)

ButtonNames == <<"a", "b", "select", "start", "up", "down", "left", "right">>

Controller_new ==
    [ shift_register |-> 0,
      buttons |-> [a |-> FALSE, b |-> FALSE, select |-> FALSE, start |-> FALSE,
                   up |-> FALSE, down |-> FALSE, left |-> FALSE, right |-> FALSE],
      strobe |-> FALSE ]

\* Faulty variant of Controller_latch_buttons: Select and Start change places.
Controller_latch_buttons_swapped(c) ==
    [c EXCEPT !.shift_register =
          (IF c.buttons.a      THEN 128 ELSE 0) + (IF c.buttons.b     THEN 64 ELSE 0)
        + (IF c.buttons.select THEN 16  ELSE 0) + (IF c.buttons.start THEN 32 ELSE 0)
        + (IF c.buttons.up     THEN 8   ELSE 0) + (IF c.buttons.down  THEN 4  ELSE 0)
        + (IF c.buttons.left   THEN 2   ELSE 0) + (IF c.buttons.right THEN 1  ELSE 0)]

Controller_latch_buttons(c) ==
    [c EXCEPT !.shift_register =
          (IF c.buttons.a      THEN 128 ELSE 0) + (IF c.buttons.b     THEN 64 ELSE 0)
        + (IF c.buttons.select THEN 32  ELSE 0) + (IF c.buttons.start THEN 16 ELSE 0)
        + (IF c.buttons.up     THEN 8   ELSE 0) + (IF c.buttons.down  THEN 4  ELSE 0)
        + (IF c.buttons.left   THEN 2   ELSE 0) + (IF c.buttons.right THEN 1  ELSE 0)]

Controller_write(c, value) ==
    LET new_strobe == BitAnd(value, 1) = 1
        c1 == IF ~c.strobe /\ new_strobe THEN Controller_latch_buttons(c) ELSE c
    IN  [c1 EXCEPT !.strobe = new_strobe]

Controller_read(c) ==
    LET result == IF BitAnd(c.shift_register, 128) # 0 THEN 1 ELSE 0
    IN  IF c.strobe
        THEN [val |-> result, st |-> c]
        ELSE [val |-> result,
              st  |-> [c EXCEPT !.shift_register = Wrap8(c.shift_register * 2)]]

\* Faulty variant of Controller_set_button: the new state is not latched
\* while the strobe is high.
Controller_set_button_unlatched(c, button, pressed) ==
    [c EXCEPT !.buttons[button] = pressed]

Controller_set_button(c, button, pressed) ==
    LET c1 == [c EXCEPT !.buttons[button] = pressed]
    IN  IF c1.strobe THEN Controller_latch_buttons(c1) ELSE c1

----------------------------------------------------------------------------
(* Bus                                                                     *)

CPU_RAM_SIZE == 2048

\* bus.rs:94, the length in CPU cycles of the PPU warm-up after reset
PPU_WARMUP_CYCLES == 29658

Bus_new ==
    [ ram |-> Memory_new(CPU_RAM_SIZE, NoBytes),
      ppu |-> Ppu_new,
      cycles |-> 0,
      reset |-> FALSE,
      dma_transfer |-> <<FALSE, 0>>,
      controller1 |-> Controller_new,
      controller2 |-> Controller_new ]

\* Faulty variant of Bus_ignore_ppu_writes: the warm-up ends one cycle late.
Bus_ignore_ppu_writes_late(b) == b.reset /\ b.cycles <= PPU_WARMUP_CYCLES

Bus_ignore_ppu_writes(b) == b.reset /\ b.cycles < PPU_WARMUP_CYCLES

Bus_read(b, addr) ==
    IF addr < 8192 THEN
        LET r == Memory_read(b.ram, BitAnd(addr, 2047))
        IN  [val |-> r.val, st |-> [b EXCEPT !.ram = r.st]]
    ELSE IF addr < 16384 THEN
        LET m_addr == BitAnd(addr, 8199)
        IN  CASE m_addr = 8194 -> LET r == Ppu_read_status(b.ppu)
                                  IN  [val |-> r.val, st |-> [b EXCEPT !.ppu = r.st]]
              [] m_addr = 8196 -> [val |-> Ppu_read_oam(b.ppu), st |-> b]
              [] m_addr = 8199 -> LET r == Ppu_read_data(b.ppu)
                                  IN  [val |-> r.val, st |-> [b EXCEPT !.ppu = r.st]]
              [] OTHER         -> [val |-> b.ppu.open_bus, st |-> b]
    ELSE IF addr = 16406 THEN
        LET r == Controller_read(b.controller1)
        IN  [val |-> r.val, st |-> [b EXCEPT !.controller1 = r.st]]
    ELSE IF addr = 16407 THEN
        LET r == Controller_read(b.controller2)
        IN  [val |-> r.val, st |-> [b EXCEPT !.controller2 = r.st]]
    ELSE IF addr < 16416 THEN [val |-> 0, st |-> b]
    ELSE
        LET r == Invoke("Mapper_read", <<b.ppu.rom.mapper, addr>>)
        IN  [val |-> r.val, st |-> [b EXCEPT !.ppu.rom.mapper = r.st]]

\* Faulty variant of Bus_write_ram: the RAM is mirrored every 1 KiB.
Bus_write_ram_1k(b, addr, data) ==
    [b EXCEPT !.ram = Memory_write(b.ram, BitAnd(addr, 1023), data)]

\* lines 58-60: the arm 0x0000..0x2000 of Bus::write
Bus_write_ram(b, addr, data) ==
    [b EXCEPT !.ram = Memory_write(b.ram, BitAnd(addr, 2047), data)]

Bus_write(b, addr, data) ==
    IF addr < 8192 THEN
        Bus_write_ram(b, addr, data)
    ELSE IF addr < 16384 THEN
        LET m_addr == BitAnd(addr, 8199)
            ign    == Bus_ignore_ppu_writes(b)
            p      == b.ppu
            p1 == CASE m_addr = 8192 -> IF ~ign THEN Ppu_write_ctrl(p, data) ELSE p
                    [] m_addr = 8193 -> IF ~ign THEN Ppu_write_mask(p, data) ELSE p
                    [] m_addr = 8195 -> Ppu_write_oamaddr(p, data)
                    [] m_addr = 8196 -> Ppu_write_oamdata(p, data)
                    [] m_addr = 8197 -> IF ~ign THEN Ppu_write_scroll(p, data) ELSE p
                    [] m_addr = 8198 -> IF ~ign THEN Ppu_write_addr(p, data) ELSE p
                    [] m_addr = 8199 -> Ppu_write_data(p, data)
                    [] OTHER         -> p
        IN  [b EXCEPT !.ppu = [p1 EXCEPT !.open_bus = data]]
    ELSE IF addr = 16406 THEN
        [b EXCEPT !.controller1 = Controller_write(b.controller1, data),
                  !.controller2 = Controller_write(b.controller2, data)]
    ELSE IF addr < 16416 THEN
        IF addr = 16404 THEN [b EXCEPT !.dma_transfer = <<TRUE, data>>] ELSE b
    ELSE
        [b EXCEPT !.ppu.rom.mapper = Mapper_write(b.ppu.rom.mapper, addr, data)]

----------------------------------------------------------------------------
(* Cpu                                                                     *)

NMI_ADDR == 65530
RESET_ADDR == 65532
IRQ_ADDR == 65534

\* StatusFlag
Carry == 1
Zero == 2
InterruptDisable == 4
Decimal == 8
Break == 16
BreakIrq == 32
Overflow == 64
Negative == 128

\* `overflow` records an arithmetic overflow, which aborts a build with
\* overflow checks and wraps in a build without them.
Cpu_new ==
    [ a |-> 0, x |-> 0, y |-> 0, pc |-> 65532, sp |-> 0, p |-> 36,
      update_interrupt_disable |-> <<FALSE, 0>>,
      bus |-> Bus_new,
      overflow |-> FALSE ]

Cpu_set_flag(c, flag, value) ==
    IF value THEN [c EXCEPT !.p = BitOr(c.p, flag)]
    ELSE [c EXCEPT !.p = BitAnd(c.p, Not8(flag))]

Cpu_get_carry_bit(c) == BitAnd(c.p, 1)

Cpu_set_zero_negative_flag(c, data) ==
    Cpu_set_flag(Cpu_set_flag(c, Zero, data = 0), Negative, BitAnd(data, 128) # 0)

Cpu_page_boundary_cycle(addr1, addr2) ==
    IF BitAnd(addr1, 65280) # BitAnd(addr2, 65280) THEN 1 ELSE 0

Cpu_inc_pc(c) == [c EXCEPT !.pc = Wrap16(c.pc + 1)]

Cpu_read_byte(c, addr) ==
    LET r == Invoke("Bus_read", <<c.bus, addr>>)
    IN  [val |-> r.val, st |-> [c EXCEPT !.bus = r.st]]

Cpu_read_word(c, addr) ==
    LET lo == Invoke("Cpu_read_byte", <<c, addr>>)
        hi == Invoke("Cpu_read_byte", <<lo.st, Wrap16(addr + 1)>>)
    IN  [val |-> hi.val * 256 + lo.val,
         st  |-> IF addr + 1 > 65535 THEN [hi.st EXCEPT !.overflow = TRUE] ELSE hi.st]

Cpu_stack_pop(c) ==
    LET c1 == [c EXCEPT !.sp = Wrap8(c.sp + 1)]
        r  == Invoke("Bus_read", <<c1.bus, 256 + c1.sp>>)
    IN  [val |-> r.val, st |-> [c1 EXCEPT !.bus = r.st]]

Cpu_stack_push(c, value) ==
    [c EXCEPT !.bus = Invoke("Bus_write", <<c.bus, 256 + c.sp, value>>),
              !.sp  = Wrap8(c.sp - 1)]

\* Cpu::reset.  The loop bound `self.bus.cycles * 3` is 21.
RECURSIVE PpuSteps(_, _)
PpuSteps(p, n) ==
    IF n = 0 THEN p
    ELSE LET Rest(q) == IF q.cycle >= 0 THEN PpuSteps(q, n - 1) ELSE q
         IN  Rest(Invoke("Ppu_step", <<p>>))

\* Faulty variant of Cpu_reset: the stack pointer is set, not decremented.
Cpu_reset_sp_fd(c) ==
    LET c1 == [c EXCEPT !.bus.reset = TRUE]
        w  == Invoke("Cpu_read_word", <<c1, RESET_ADDR>>)
        c2 == [w.st EXCEPT !.pc = w.val,
                           !.sp = 253,
                           !.bus.cycles = 7]
        c3 == Cpu_set_flag(c2, InterruptDisable, TRUE)
    IN  [c3 EXCEPT !.bus.ppu = PpuSteps(c3.bus.ppu, c3.bus.cycles * 3)]

Cpu_reset(c) ==
    LET c1 == [c EXCEPT !.bus.reset = TRUE]
        w  == Invoke("Cpu_read_word", <<c1, RESET_ADDR>>)
        c2 == [w.st EXCEPT !.pc = w.val,
                           !.sp = Wrap8(w.st.sp - 3),
                           !.bus.cycles = 7]
        c3 == Cpu_set_flag(c2, InterruptDisable, TRUE)
    IN  [c3 EXCEPT !.bus.ppu = PpuSteps(c3.bus.ppu, c3.bus.cycles * 3)]

\* Faulty variant of Cpu_interrupt_NMI: PCL is pushed before PCH.
Cpu_interrupt_NMI_lo_first(c) ==
    LET c1 == Invoke("Cpu_stack_push", <<c, Lo(c.pc)>>)
        c2 == Invoke("Cpu_stack_push", <<c1, Hi(c.pc)>>)
        c3 == Cpu_set_flag(Cpu_set_flag(c2, Break, FALSE), BreakIrq, TRUE)
        c4 == Invoke("Cpu_stack_push", <<c3, c3.p>>)
        c5 == Cpu_set_flag(c4, InterruptDisable, TRUE)
        w  == Invoke("Cpu_read_word", <<c5, NMI_ADDR>>)
    IN  [w.st EXCEPT !.pc = w.val]

\* Cpu::interrupt, arm Interrupt::NMI
Cpu_interrupt_NMI(c) ==
    LET c1 == Invoke("Cpu_stack_push", <<c, Hi(c.pc)>>)
        c2 == Invoke("Cpu_stack_push", <<c1, Lo(c.pc)>>)
        c3 == Cpu_set_flag(Cpu_set_flag(c2, Break, FALSE), BreakIrq, TRUE)
        c4 == Invoke("Cpu_stack_push", <<c3, c3.p>>)
        c5 == Cpu_set_flag(c4, InterruptDisable, TRUE)
        w  == Invoke("Cpu_read_word", <<c5, NMI_ADDR>>)
    IN  [w.st EXCEPT !.pc = w.val]

\* Cpu::interrupt, arm Interrupt::BRK
Cpu_interrupt_BRK(c) ==
    LET c0 == [c EXCEPT !.pc = Wrap16(c.pc + 1)]
        c1 == Invoke("Cpu_stack_push", <<c0, Hi(c0.pc)>>)
        c2 == Invoke("Cpu_stack_push", <<c1, Lo(c0.pc)>>)
        c3 == Cpu_set_flag(Cpu_set_flag(c2, Break, TRUE), BreakIrq, TRUE)
        c4 == Invoke("Cpu_stack_push", <<c3, c3.p>>)
        c5 == Cpu_set_flag(Cpu_set_flag(c4, Break, FALSE), InterruptDisable, TRUE)
        w  == Invoke("Cpu_read_word", <<c5, IRQ_ADDR>>)
    IN  [w.st EXCEPT !.pc = w.val]

(* Addressing modes: fetch_operand_addr returns (addr, page-cross cycle)   *)

Cpu_fetch_abs(c) ==
    LET lo == Invoke("Cpu_read_byte", <<c, c.pc>>)
        c1 == Cpu_inc_pc(lo.st)
        hi == Invoke("Cpu_read_byte", <<c1, c1.pc>>)
        c2 == Cpu_inc_pc(hi.st)
    IN  [addr |-> hi.val * 256 + lo.val, st |-> c2]

Cpu_fetch_operand_addr(c, mode) ==
    CASE mode = "Absolute" ->
            LET f == Invoke("Cpu_fetch_abs", <<c>>)
            IN  [addr |-> f.addr, cyc |-> 0, st |-> f.st]
      [] mode = "AbsoluteX" ->
            LET f    == Invoke("Cpu_fetch_abs", <<c>>)
                addr == Wrap16(f.addr + f.st.x)
            IN  [addr |-> addr, cyc |-> Cpu_page_boundary_cycle(addr, f.addr), st |-> f.st]
      [] mode = "AbsoluteY" ->
            LET f    == Invoke("Cpu_fetch_abs", <<c>>)
                addr == Wrap16(f.addr + f.st.y)
            IN  [addr |-> addr, cyc |-> Cpu_page_boundary_cycle(addr, f.addr), st |-> f.st]
      [] mode \in {"Accumulator", "Immediate", "Implied"} ->
            [addr |-> 0, cyc |-> 0, st |-> c]
      [] mode = "Relative" ->
            LET r    == Invoke("Cpu_read_byte", <<c, c.pc>>)
                c1   == Cpu_inc_pc(r.st)
                \* (self.pc as i16 + offset as i16) as u16
                pc16 == IF c1.pc >= 32768 THEN c1.pc - 65536 ELSE c1.pc
                sum  == pc16 + AsI8(r.val)
                addr == Wrap16(sum + 65536)
                c2   == IF sum > 32767 \/ sum < -32768
                        THEN [c1 EXCEPT !.overflow = TRUE] ELSE c1
            IN  [addr |-> addr, cyc |-> Cpu_page_boundary_cycle(c1.pc, addr), st |-> c2]
      [] mode = "ZeroPage" ->
            LET r == Invoke("Cpu_read_byte", <<c, c.pc>>)
            IN  [addr |-> r.val, cyc |-> 0, st |-> Cpu_inc_pc(r.st)]
      [] mode = "ZeroPageX" ->
            LET r  == Invoke("Cpu_read_byte", <<c, c.pc>>)
                c1 == Cpu_inc_pc(r.st)
            IN  [addr |-> BitAnd(r.val + c1.x, 255), cyc |-> 0, st |-> c1]
      [] mode = "ZeroPageY" ->
            LET r  == Invoke("Cpu_read_byte", <<c, c.pc>>)
                c1 == Cpu_inc_pc(r.st)
            IN  [addr |-> BitAnd(r.val + c1.y, 255), cyc |-> 0, st |-> c1]
      [] mode = "IndirectX" ->
            LET zp == Invoke("Cpu_read_byte", <<c, c.pc>>)
                c1 == Cpu_inc_pc(zp.st)
                effective_zp == Wrap8(zp.val + c1.x)
                lo == Invoke("Cpu_read_byte", <<c1, effective_zp>>)
                hi == Invoke("Cpu_read_byte", <<lo.st, Wrap8(effective_zp + 1)>>)
            IN  [addr |-> hi.val * 256 + lo.val, cyc |-> 0, st |-> hi.st]
      [] mode = "IndirectY" ->
            LET zp == Invoke("Cpu_read_byte", <<c, c.pc>>)
                c1 == Cpu_inc_pc(zp.st)
                lo == Invoke("Cpu_read_byte", <<c1, zp.val>>)
                hi == Invoke("Cpu_read_byte", <<lo.st, Wrap8(zp.val + 1)>>)
                base_addr  == hi.val * 256 + lo.val
                final_addr == Wrap16(base_addr + hi.st.y)
            IN  [addr |-> final_addr,
                 cyc |-> Cpu_page_boundary_cycle(final_addr, base_addr), st |-> hi.st]

Cpu_fetch_operand(c) ==
    LET addr == c.pc
        c1   == Cpu_inc_pc(c)
        r    == Invoke("Bus_read", <<c1.bus, addr>>)
    IN  [val |-> r.val, st |-> [c1 EXCEPT !.bus = r.st]]

\* the operand of a load: (data, cycles)
Cpu_load_operand(c, mode) ==
    IF mode = "Immediate"
    THEN LET r == Invoke("Cpu_fetch_operand", <<c>>)
         IN  [val |-> r.val, cyc |-> 0, st |-> r.st]
    ELSE LET f == Invoke("Cpu_fetch_operand_addr", <<c, mode>>)
             r == Invoke("Bus_read", <<f.st.bus, f.addr>>)
         IN  [val |-> r.val, cyc |-> f.cyc, st |-> [f.st EXCEPT !.bus = r.st]]

(* Instruction handlers: each returns the new Cpu and the extra cycles     *)

lda(c, mode) ==
    LET o == Invoke("Cpu_load_operand", <<c, mode>>)
    IN  [st |-> Cpu_set_zero_negative_flag([o.st EXCEPT !.a = o.val], o.val), cyc |-> o.cyc]

ldx(c, mode) ==
    LET o == Invoke("Cpu_load_operand", <<c, mode>>)
    IN  [st |-> Cpu_set_zero_negative_flag([o.st EXCEPT !.x = o.val], o.val), cyc |-> o.cyc]

sta(c, mode) ==
    LET f == Invoke("Cpu_fetch_operand_addr", <<c, mode>>)
    IN  [st |-> [f.st EXCEPT !.bus = Invoke("Bus_write", <<f.st.bus, f.addr, f.st.a>>)], cyc |-> f.cyc]

stx(c, mode) ==
    LET f == Invoke("Cpu_fetch_operand_addr", <<c, mode>>)
    IN  [st |-> [f.st EXCEPT !.bus = Invoke("Bus_write", <<f.st.bus, f.addr, f.st.x>>)], cyc |-> f.cyc]

txs(c, mode) == [st |-> [c EXCEPT !.sp = c.x], cyc |-> 0]

asl(c, mode) ==
    IF mode = "Accumulator"
    THEN LET c1     == Cpu_set_flag(c, Carry, BitAnd(c.a, 128) # 0)
             result == Wrap8(c.a * 2)
         IN  [st |-> [Cpu_set_zero_negative_flag(c1, result) EXCEPT !.a = result],
              cyc |-> 0]
    ELSE LET f == Invoke("Cpu_fetch_operand_addr", <<c, mode>>)
             Shift(r) ==
                 LET c1     == Cpu_set_flag([f.st EXCEPT !.bus = r.st], Carry,
                                            BitAnd(r.val, 128) # 0)
                     result == Wrap8(r.val * 2)
                     c2     == Cpu_set_zero_negative_flag(c1, result)
                 IN  [c2 EXCEPT !.bus = Invoke("Bus_write", <<c2.bus, f.addr, result>>)]
         IN  [st |-> Shift(Invoke("Bus_read", <<f.st.bus, f.addr>>)), cyc |-> f.cyc]

branch(c, mode, condition) ==
    LET f == Invoke("Cpu_fetch_operand_addr", <<c, mode>>)
    IN  IF condition
        THEN [st |-> [f.st EXCEPT !.pc = f.addr], cyc |-> f.cyc + 1]
        ELSE [st |-> f.st, cyc |-> f.cyc]

bpl(c, mode) == branch(c, mode, BitAnd(c.p, Negative) = 0)

jmp(c, mode) ==
    LET f == Invoke("Cpu_fetch_operand_addr", <<c, mode>>)
    IN  [st |-> [f.st EXCEPT !.pc = f.addr], cyc |-> f.cyc]

php(c, mode) ==
    [st |-> [c EXCEPT !.bus = Invoke("Bus_write", <<c.bus, 256 + c.sp, BitOr(c.p, 48)>>),
                      !.sp  = Wrap8(c.sp - 1)],
     cyc |-> 0]

plp(c, mode) ==
    LET c1   == [c EXCEPT !.sp = Wrap8(c.sp + 1)]
        Pulled(r) ==
            LET data == r.val
                c2 == [c1 EXCEPT !.bus = r.st]
                c3 == Cpu_set_flag(c2, Carry, BitAnd(data, 1) # 0)
                c4 == Cpu_set_flag(c3, Zero, BitAnd(data, 2) # 0)
                c5 == [c4 EXCEPT !.update_interrupt_disable = <<TRUE, BitAnd(data, 4)>>]
                c6 == Cpu_set_flag(c5, Break, FALSE)
                c7 == Cpu_set_flag(c6, Decimal, BitAnd(data, 8) # 0)
                c8 == Cpu_set_flag(c7, Overflow, BitAnd(data, 64) # 0)
            IN  Cpu_set_flag(c8, Negative, BitAnd(data, 128) # 0)
    IN  [st |-> Pulled(Invoke("Bus_read", <<c1.bus, 256 + c1.sp>>)), cyc |-> 0]

cli(c, mode) == [st |-> Cpu_set_flag(c, InterruptDisable, FALSE), cyc |-> 0]

sei(c, mode) == [st |-> [c EXCEPT !.update_interrupt_disable = <<TRUE, 1>>], cyc |-> 0]

rti(c, mode) ==
    LET r1 == Invoke("Cpu_stack_pop", <<c>>)
        c1 == Cpu_set_flag([r1.st EXCEPT !.p = r1.val], Break, FALSE)
        lo == Invoke("Cpu_stack_pop", <<c1>>)
        hi == Invoke("Cpu_stack_pop", <<lo.st>>)
    IN  [st |-> [hi.st EXCEPT !.pc = hi.val * 256 + lo.val], cyc |-> 0]

brk(c, mode) == [st |-> Invoke("Cpu_interrupt_BRK", <<c>>), cyc |-> 0]

ldy(c, mode) ==
    LET o == Invoke("Cpu_load_operand", <<c, mode>>)
    IN  [st |-> Cpu_set_zero_negative_flag([o.st EXCEPT !.y = o.val], o.val), cyc |-> o.cyc]

tax(c, mode) ==
    [st |-> Cpu_set_zero_negative_flag([c EXCEPT !.x = c.a], c.a), cyc |-> 0]

adc(c, mode) ==
    LET o      == Invoke("Cpu_load_operand", <<c, mode>>)
        c0     == o.st
        result == Wrap16(c0.a + o.val + Cpu_get_carry_bit(c0))
        final_result == Wrap8(result)
        c1 == Cpu_set_flag(c0, Carry, result > 255)
        c2 == Cpu_set_flag(c1, Zero, final_result = 0)
        c3 == Cpu_set_flag(c2, Negative, BitAnd(final_result, 128) # 0)
        c4 == Cpu_set_flag(c3, Overflow,
                  BitAnd(BitAnd(BitXor(c0.a, final_result),
                                BitXor(o.val, final_result)), 128) # 0)
    IN  [st |-> [c4 EXCEPT !.a = final_result], cyc |-> o.cyc]

\* Faulty variant of sbc: the overflow flag is computed as in adc, with the
\* operand itself.
sbc_overflow_of_adc(c, mode) ==
    LET o      == Invoke("Cpu_load_operand", <<c, mode>>)
        c0     == o.st
        borrow == 1 - Cpu_get_carry_bit(c0)
        result == Wrap8(c0.a - o.val - borrow + 512)
        c1 == Cpu_set_flag(c0, Carry, c0.a - o.val - borrow >= 0)
        c2 == Cpu_set_zero_negative_flag(c1, result)
        c3 == Cpu_set_flag(c2, Overflow,
                  BitAnd(BitAnd(BitXor(c0.a, result),
                                BitXor(o.val, result)), 128) # 0)
    IN  [st |-> [c3 EXCEPT !.a = result], cyc |-> o.cyc]

sbc(c, mode) ==
    LET o      == Invoke("Cpu_load_operand", <<c, mode>>)
        c0     == o.st
        borrow == 1 - Cpu_get_carry_bit(c0)
        \* cpu.a.wrapping_sub(data).wrapping_sub(borrow)
        result == Wrap8(c0.a - o.val - borrow + 512)
        \* (cpu.a as i16 - data as i16 - borrow as i16) >= 0
        c1 == Cpu_set_flag(c0, Carry, c0.a - o.val - borrow >= 0)
        c2 == Cpu_set_zero_negative_flag(c1, result)
        c3 == Cpu_set_flag(c2, Overflow,
                  BitAnd(BitAnd(BitXor(c0.a, result),
                                Not8(BitXor(o.val, result))), 128) # 0)
    IN  [st |-> [c3 EXCEPT !.a = result], cyc |-> o.cyc]

pha(c, mode) ==
    [st |-> [c EXCEPT !.bus = Invoke("Bus_write", <<c.bus, 256 + c.sp, c.a>>),
                      !.sp  = Wrap8(c.sp - 1)],
     cyc |-> 0]

clc(c, mode) == [st |-> Cpu_set_flag(c, Carry, FALSE), cyc |-> 0]

sec(c, mode) == [st |-> Cpu_set_flag(c, Carry, TRUE), cyc |-> 0]

cld(c, mode) == [st |-> Cpu_set_flag(c, Decimal, FALSE), cyc |-> 0]

sed(c, mode) == [st |-> Cpu_set_flag(c, Decimal, TRUE), cyc |-> 0]

ane(c, mode) ==
    [st |-> Cpu_set_flag(Cpu_set_flag([c EXCEPT !.a = 0], Zero, TRUE), Negative, FALSE),
     cyc |-> 0]

lxa(c, mode) ==
    LET l == lda(c, mode)
        t == tax(l.st, mode)
    IN  [st |-> t.st, cyc |-> l.cyc + t.cyc]

nop(c, mode) ==
    IF mode = "Implied" THEN [st |-> c, cyc |-> 0]
    ELSE IF mode = "Immediate" THEN [st |-> Invoke("Cpu_fetch_operand", <<c>>).st, cyc |-> 0]
    ELSE LET f == Invoke("Cpu_fetch_operand_addr", <<c, mode>>)
         IN  [st |-> f.st, cyc |-> f.cyc]

jam(c, mode) == [st |-> c, cyc |-> 0]

(* OPCODE_TABLE: the entries of the 256-entry table that the guest programs *)
(* of this model execute.                                                   *)

Instr(f, m, n) == [function |-> f, mode |-> m, min_cycles |-> n]

OPCODE_TABLE ==
    (0   :> Instr("brk", "Implied", 7))    @@ (2   :> Instr("jam", "Implied", 0)) @@
    (4   :> Instr("nop", "ZeroPage", 3))   @@ (6   :> Instr("asl", "ZeroPage", 5)) @@
    (8   :> Instr("php", "Implied", 3))    @@ (10  :> Instr("asl", "Accumulator", 2)) @@
    (12  :> Instr("nop", "Absolute", 4))   @@ (14  :> Instr("asl", "Absolute", 6)) @@
    (16  :> Instr("bpl", "Relative", 2))   @@ (18  :> Instr("jam", "Implied", 0)) @@
    (20  :> Instr("nop", "ZeroPageX", 4))  @@ (22  :> Instr("asl", "ZeroPageX", 6)) @@
    (24  :> Instr("clc", "Implied", 2))    @@ (26  :> Instr("nop", "Implied", 2)) @@
    (28  :> Instr("nop", "AbsoluteX", 4))  @@ (30  :> Instr("asl", "AbsoluteX", 7)) @@
    (34  :> Instr("jam", "Implied", 0))    @@ (40  :> Instr("plp", "Implied", 4)) @@
    (50  :> Instr("jam", "Implied", 0))    @@ (52  :> Instr("nop", "ZeroPageX", 4)) @@
    (56  :> Instr("sec", "Implied", 2))    @@ (58  :> Instr("nop", "Implied", 2)) @@
    (60  :> Instr("nop", "AbsoluteX", 4))  @@ (64  :> Instr("rti", "Implied", 6)) @@
    (66  :> Instr("jam", "Implied", 0))    @@ (68  :> Instr("nop", "ZeroPage", 3)) @@
    (72  :> Instr("pha", "Implied", 3))    @@ (76  :> Instr("jmp", "Absolute", 3)) @@
    (82  :> Instr("jam", "Implied", 0))    @@ (84  :> Instr("nop", "ZeroPageX", 4)) @@
    (88  :> Instr("cli", "Implied", 2))    @@ (90  :> Instr("nop", "Implied", 2)) @@
    (92  :> Instr("nop", "AbsoluteX", 4))  @@ (97  :> Instr("adc", "IndirectX", 6)) @@
    (98  :> Instr("jam", "Implied", 0))    @@ (100 :> Instr("nop", "ZeroPage", 3)) @@
    (101 :> Instr("adc", "ZeroPage", 3))   @@ (105 :> Instr("adc", "Immediate", 2)) @@
    (109 :> Instr("adc", "Absolute", 4))   @@ (113 :> Instr("adc", "IndirectY", 5)) @@
    (114 :> Instr("jam", "Implied", 0))    @@ (116 :> Instr("nop", "ZeroPageX", 4)) @@
    (117 :> Instr("adc", "ZeroPageX", 4))  @@ (120 :> Instr("sei", "Implied", 2)) @@
    (121 :> Instr("adc", "AbsoluteY", 4))  @@ (122 :> Instr("nop", "Implied", 2)) @@
    (124 :> Instr("nop", "AbsoluteX", 4))  @@ (125 :> Instr("adc", "AbsoluteX", 4)) @@
    (128 :> Instr("nop", "Immediate", 2))  @@ (129 :> Instr("sta", "IndirectX", 6)) @@
    (130 :> Instr("nop", "Immediate", 2))  @@ (133 :> Instr("sta", "ZeroPage", 3)) @@
    (134 :> Instr("stx", "ZeroPage", 3))   @@ (137 :> Instr("nop", "Immediate", 2)) @@
    (139 :> Instr("ane", "Immediate", 2))  @@ (141 :> Instr("sta", "Absolute", 4)) @@
    (142 :> Instr("stx", "Absolute", 4))   @@ (145 :> Instr("sta", "IndirectY", 6)) @@
    (146 :> Instr("jam", "Implied", 0))    @@ (149 :> Instr("sta", "ZeroPageX", 4)) @@
    (150 :> Instr("stx", "ZeroPageY", 4))  @@ (153 :> Instr("sta", "AbsoluteY", 5)) @@
    (154 :> Instr("txs", "Implied", 2))    @@ (157 :> Instr("sta", "AbsoluteX", 5)) @@
    (160 :> Instr("ldy", "Immediate", 2))  @@ (161 :> Instr("lda", "IndirectX", 6)) @@
    (162 :> Instr("ldx", "Immediate", 2))  @@ (164 :> Instr("ldy", "ZeroPage", 3)) @@
    (165 :> Instr("lda", "ZeroPage", 3))   @@ (166 :> Instr("ldx", "ZeroPage", 3)) @@
    (169 :> Instr("lda", "Immediate", 2))  @@ (170 :> Instr("tax", "Implied", 2)) @@
    (171 :> Instr("lxa", "Immediate", 2))  @@ (172 :> Instr("ldy", "Absolute", 4)) @@
    (173 :> Instr("lda", "Absolute", 4))   @@ (174 :> Instr("ldx", "Absolute", 4)) @@
    (177 :> Instr("lda", "IndirectY", 5))  @@ (178 :> Instr("jam", "Implied", 0)) @@
    (180 :> Instr("ldy", "ZeroPageX", 4))  @@ (181 :> Instr("lda", "ZeroPageX", 4)) @@
    (182 :> Instr("ldx", "ZeroPageY", 4))  @@ (185 :> Instr("lda", "AbsoluteY", 4)) @@
    (188 :> Instr("ldy", "AbsoluteX", 4))  @@ (189 :> Instr("lda", "AbsoluteX", 4)) @@
    (190 :> Instr("ldx", "AbsoluteY", 4))  @@ (194 :> Instr("nop", "Immediate", 2)) @@
    (210 :> Instr("jam", "Implied", 0))    @@ (212 :> Instr("nop", "ZeroPageX", 4)) @@
    (216 :> Instr("cld", "Implied", 2))    @@ (218 :> Instr("nop", "Implied", 2)) @@
    (220 :> Instr("nop", "AbsoluteX", 4))  @@ (225 :> Instr("sbc", "IndirectX", 6)) @@
    (226 :> Instr("nop", "Immediate", 2))  @@ (229 :> Instr("sbc", "ZeroPage", 3)) @@
    (233 :> Instr("sbc", "Immediate", 2))  @@ (234 :> Instr("nop", "Implied", 2)) @@
    (235 :> Instr("sbc", "Immediate", 2))  @@ (237 :> Instr("sbc", "Absolute", 4)) @@
    (241 :> Instr("sbc", "IndirectY", 5))  @@ (242 :> Instr("jam", "Implied", 0)) @@
    (244 :> Instr("nop", "ZeroPageX", 4))  @@ (245 :> Instr("sbc", "ZeroPageX", 4)) @@
    (248 :> Instr("sed", "Implied", 2))    @@ (249 :> Instr("sbc", "AbsoluteY", 4)) @@
    (250 :> Instr("nop", "Implied", 2))    @@ (252 :> Instr("nop", "AbsoluteX", 4)) @@
    (253 :> Instr("sbc", "AbsoluteX", 4))

\* (instruction.function)(self, instruction.mode)
Call(f, c, mode) ==
    CASE f = "brk" -> brk(c, mode)
      [] f = "jam" -> jam(c, mode)
      [] f = "bpl" -> bpl(c, mode)
      [] f = "rti" -> rti(c, mode)
      [] f = "jmp" -> jmp(c, mode)
      [] f = "sta" -> sta(c, mode)
      [] f = "stx" -> stx(c, mode)
      [] f = "txs" -> txs(c, mode)
      [] f = "ldx" -> ldx(c, mode)
      [] f = "lda" -> lda(c, mode)
      [] f = "nop" -> nop(c, mode)
      [] f = "asl" -> asl(c, mode)
      [] f = "php" -> php(c, mode)
      [] f = "plp" -> plp(c, mode)
      [] f = "cli" -> cli(c, mode)
      [] f = "sei" -> sei(c, mode)
      [] f = "ldy" -> ldy(c, mode)
      [] f = "tax" -> tax(c, mode)
      [] f = "adc" -> adc(c, mode)
      [] f = "sbc" -> sbc(c, mode)
      [] f = "pha" -> pha(c, mode)
      [] f = "clc" -> clc(c, mode)
      [] f = "sec" -> sec(c, mode)
      [] f = "cld" -> cld(c, mode)
      [] f = "sed" -> sed(c, mode)
      [] f = "ane" -> ane(c, mode)
      [] f = "lxa" -> lxa(c, mode)

Cpu_fetch_instruction(c) ==
    LET r == Invoke("Cpu_read_byte", <<c, c.pc>>)
    IN  [opcode |-> r.val, st |-> Cpu_inc_pc(r.st)]

(* Cpu::step, in the order of its statements                               *)

\* lines 126-135: the OAM DMA of a pending $4014 write.  The loop
\* `for i in 0..256` is unrolled as 16 runs of 16 iterations, i ascending.
RECURSIVE Cpu_dma_run(_, _, _, _)
Cpu_dma_run(c, bank, i, end) ==
    IF i = end THEN c
    ELSE LET Store(r) ==
                 [r.st EXCEPT !.bus.ppu = Ppu_write_oamdata(r.st.bus.ppu, r.val)]
             Rest(c1) == IF c1.bus.ppu.oamaddr >= 0
                         THEN Cpu_dma_run(c1, bank, i + 1, end) ELSE c1
         IN  Rest(Store(Invoke("Cpu_read_byte", <<c, bank * 256 + i>>)))

RECURSIVE Cpu_dma_loop(_, _, _)
Cpu_dma_loop(c, bank, i) ==
    IF i = 256 THEN c
    ELSE LET Rest(c1) == IF c1.bus.ppu.oamaddr >= 0
                         THEN Cpu_dma_loop(c1, bank, i + 16) ELSE c1
         IN  Rest(Cpu_dma_run(c, bank, i, i + 16))

DMA_CYCLES == 514

\* Faulty variant of Cpu_step_dma: the transfer is charged 513 cycles.
Cpu_step_dma_513(c) ==
    IF c.bus.dma_transfer[1]
    THEN LET c1 == Cpu_dma_loop(c, c.bus.dma_transfer[2], 0)
         IN  [c1 EXCEPT !.bus.cycles = c1.bus.cycles + 513,
                        !.bus.dma_transfer = <<FALSE, 0>>]
    ELSE c

Cpu_step_dma(c) ==
    IF c.bus.dma_transfer[1]
    THEN LET c1 == Cpu_dma_loop(c, c.bus.dma_transfer[2], 0)
         IN  [c1 EXCEPT !.bus.cycles = c1.bus.cycles + DMA_CYCLES,
                        !.bus.dma_transfer = <<FALSE, 0>>]
    ELSE c

\* lines 137-140: the deferred update of the I flag
Cpu_step_deferred(c) ==
    IF c.update_interrupt_disable[1]
    THEN [Cpu_set_flag(c, InterruptDisable, c.update_interrupt_disable[2] # 0)
             EXCEPT !.update_interrupt_disable = <<FALSE, 0>>]
    ELSE c

\* lines 151-154: one instruction; cycles = min_cycles + page_cross_cycle
Cpu_step_exec(c) ==
    LET f     == Cpu_fetch_instruction(c)
        instr == OPCODE_TABLE[f.opcode]
        r     == Invoke("Call", <<instr.function, f.st, instr.mode>>)
    IN  [st |-> r.st, cycles |-> instr.min_cycles + r.cyc, opcode |-> f.opcode]

\* lines 182-188: the PPU catch-up.  The log counts the calls of Ppu::step
\* (`ticks`), the NMIs serviced (`nmis`) and the frames completed, i.e. the
\* ticks that took the PPU from scanline 261 to scanline 0 (`wraps`), and
\* collects bit 7 of ctrl at every tick made from scanline 241 dot 1 (`vbl`).
NoLog == [ticks |-> 0, nmis |-> 0, wraps |-> 0, vbl |-> <<>>]

RECURSIVE Cpu_step_catch_up(_, _, _)
Cpu_step_catch_up(c, n, log) ==
    IF n = 0 THEN [st |-> c, log |-> log]
    ELSE LET p0   == c.bus.ppu
             p1   == Invoke("Ppu_step", <<p0>>)
             log1 == [log EXCEPT
                        !.ticks = @ + 1,
                        !.wraps = IF p0.scanline = 261 /\ p1.scanline = 0 THEN @ + 1 ELSE @,
                        !.vbl   = IF p0.scanline = 241 /\ p0.cycle = 1
                                  THEN Append(@, Bit(p0.ctrl, 7)) ELSE @]
         IN  IF log1.ticks > 0 /\ p1.trigger_nmi
             THEN Cpu_step_catch_up(
                      Invoke("Cpu_interrupt_NMI", <<[c EXCEPT !.bus.ppu = [p1 EXCEPT !.trigger_nmi = FALSE]]>>),
                      n - 1, [log1 EXCEPT !.nmis = @ + 1])
             ELSE Cpu_step_catch_up([c EXCEPT !.bus.ppu = p1], n - 1, log1)

\* The whole of Cpu::step, with the intermediate states it passes through.
\* c1: after the DMA; e: after the instruction; k: after the catch-up
Cpu_step_trace(c) ==
    LET Trace(c1, e, k) ==
            [ dmaed  |-> c1,
              opcode |-> e.opcode,
              execd  |-> e.st,
              cycles |-> e.cycles,
              log    |-> k.log,
              st     |-> [k.st EXCEPT !.bus.cycles = k.st.bus.cycles + e.cycles] ]
        CatchUp(c1, e) == Trace(c1, e, Cpu_step_catch_up(e.st, e.cycles * 3, NoLog))
        Exec(c1) == CatchUp(c1, Cpu_step_exec(Cpu_step_deferred(c1)))
    IN  Exec(Cpu_step_dma(c))

Cpu_step(c) == Invoke("Cpu_step_trace", <<c>>).st

----------------------------------------------------------------------------
(* Nes facade                                                              *)

Nes_new == Cpu_new

Nes_set_rom(c, rom) == [c EXCEPT !.bus.ppu.rom = rom]

\* Nes::on: Cpu::interrupt(Interrupt::RESET), which is Cpu::reset
Nes_on(c) == Invoke("Cpu_reset", <<c>>)

Nes_reset(c) == Invoke("Cpu_reset", <<c>>)

Nes_step(c) == Cpu_step(c)

Nes_poll_frame(c) ==
    [val |-> c.bus.ppu.frame_ready, st |-> [c EXCEPT !.bus.ppu.frame_ready = FALSE]]

----------------------------------------------------------------------------
(* Guest programs: 16 KiB PRG-ROM images of NROM cartridges.  The image is *)
(* mapped at $8000 and mirrored at $C000, so the vectors are at offsets    *)
(* $3FFA..$3FFF.  Bytes not listed are 0.                                  *)

\* the bytes of `code` placed from offset `at`
Place(at, code) == [i \in at..(at + Len(code) - 1) |-> code[i - at + 1]]

\* vectors NMI, RESET, IRQ as little-endian words
Vectors(nmi, reset, irq) ==
    Place(16378, <<Lo(nmi), Hi(nmi), Lo(reset), Hi(reset), Lo(irq), Hi(irq)>>)

\* $8000  LDX #$FF ; TXS ; STX $0203
\* $8006  LDA #$07 ; STA $0200
\* $800B  LDA #$02 ; STA $4014           OAM DMA from page 2
\* $8010  LDA #$80
\* $8012  STA $2000                      enable NMI (dropped during warm-up)
\* $8015  LDX $2002
\* $8018  JMP $8012
\* $8020  LDX #$01 ; STX $4014 ; RTI     NMI handler: OAM DMA from the stack page
ProgNmi ==
    Place(0, << 162, 255, 154, 142, 3, 2,
                169, 7, 141, 0, 2,
                169, 2, 141, 20, 64,
                169, 128,
                141, 0, 32,
                174, 2, 32,
                76, 18, 128 >>)
    @@ Place(32, << 162, 1, 142, 20, 64, 64 >>)
    @@ Vectors(32800, 32768, 32768)

\* $8000  LDX #$FF ; TXS ; NOP
\* $8004  LDA #$00 ; STA $2000           disable NMI
\* $8009  LDA #$80 ; STA $2000           enable NMI
\* $800E  JMP $8004
\* $8020  RTI                            NMI handler
ProgToggle ==
    Place(0, << 162, 255, 154, 234,
                169, 0, 141, 0, 32,
                169, 128, 141, 0, 32,
                76, 4, 128 >>)
    @@ Place(32, << 64 >>)
    @@ Vectors(32800, 32768, 32768)

\* $80FE  BPL $80FE    a taken branch whose target is on the page before the
\*                     next instruction: 4 cycles, N is clear after reset
ProgIdle ==
    Place(254, << 16, 254 >>) @@ Vectors(33022, 33022, 33022)

----------------------------------------------------------------------------
(* The machine driven through the facade                                   *)

\* bound of the cycle counter: Step is not taken at or beyond it
MaxCycles == 58000

Programs == {ProgNmi, ProgToggle}

\* Nes::new, set_rom, on
PowerOn(prog) == Nes_on(Nes_set_rom(Nes_new, NromRom(0, prog)))

\* History of the run.  `frames` and `polled` count the completed PPU
\* frames and the poll_frame calls that returned true; the other fields
\* describe the last call.
NoObs ==
    [ op |-> "on", ret |-> FALSE, repoll |-> FALSE,
      addr |-> 0, data |-> 0, val |-> 0, ops |-> 0, ticked |-> 0,
      frames |-> 0, polled |-> 0,
      opcode |-> 0, cycles |-> 0, ticks |-> 0, nmis |-> 0, vbl |-> <<>>,
      pre   |-> [pending |-> FALSE, page |-> 0, src |-> <<>>, oam |-> <<>>,
                 oamaddr |-> 0, cycles |-> 0],
      dmaed |-> [oam |-> <<>>, cycles |-> 0, pending |-> FALSE],
      execd |-> [pc |-> 0, p |-> 0, sp |-> 0] ]

\* the bytes a DMA of `page` finds on the bus, as 0-based function
DmaSource(c, page) == [i \in 0..255 |-> Invoke("Bus_read", <<c.bus, page * 256 + i>>).val]

ObsOfStep(c, o, tr) ==
    [ o EXCEPT !.op = "step", !.ret = FALSE, !.repoll = FALSE,
               !.pre = [pending |-> c.bus.dma_transfer[1],
                        page    |-> c.bus.dma_transfer[2],
                        src     |-> IF c.bus.dma_transfer[1]
                                    THEN Invoke("DmaSource", <<c, c.bus.dma_transfer[2]>>) ELSE <<>>,
                        oam     |-> c.bus.ppu.oam,
                        oamaddr |-> c.bus.ppu.oamaddr,
                        cycles  |-> c.bus.cycles],
               !.frames = @ + tr.log.wraps,
               !.opcode = tr.opcode, !.cycles = tr.cycles,
               !.ticks = tr.log.ticks, !.nmis = tr.log.nmis, !.vbl = tr.log.vbl,
               !.dmaed = [oam     |-> tr.dmaed.bus.ppu.oam,
                          cycles  |-> tr.dmaed.bus.cycles,
                          pending |-> tr.dmaed.bus.dma_transfer[1]],
               !.execd = [pc |-> tr.execd.pc, p |-> tr.execd.p, sp |-> tr.execd.sp] ]

InitNes ==
    /\ \E prog \in Programs : cpu = Invoke("PowerOn", <<prog>>)
    /\ host = "run"
    /\ obs = NoObs

\* the opcode at PC is one of the modelled entries of OPCODE_TABLE
Modelled(c) == Invoke("Bus_read", <<Cpu_step_deferred(Cpu_step_dma(c)).bus, c.pc>>).val \in DOMAIN OPCODE_TABLE

\* One iteration of the host loop of SDLWrapper::run: Nes::step, then
\* Nes::poll_frame, whose result ends the loop and presents the frame.
StepAndPoll ==
    /\ cpu.bus.cycles < MaxCycles
    /\ Invoke("Modelled", <<cpu>>)
    /\ LET Poll(tr, r) ==
               /\ cpu' = r.st
               /\ obs' = [ObsOfStep(cpu, obs, tr) EXCEPT
                             !.ret = r.val, !.polled = IF r.val THEN @ + 1 ELSE @]
               /\ host' = IF r.val THEN "present" ELSE "run"
           Step(tr) == Poll(tr, Nes_poll_frame(tr.st))
       IN  Step(Invoke("Cpu_step_trace", <<cpu>>))

\* Nes::poll_frame called again, with no step since the last poll
PollFrame ==
    /\ LET Poll(r) ==
               /\ cpu' = r.st
               /\ obs' = [obs EXCEPT !.op = "poll", !.ret = r.val, !.repoll = TRUE,
                                     !.polled = IF r.val THEN @ + 1 ELSE @]
       IN  Poll(Nes_poll_frame(cpu))
    /\ UNCHANGED host

NextNes == StepAndPoll \/ PollFrame

Spec == InitNes /\ [][NextNes]_vars

\* every opcode that is fetched is modelled
AllModelled == cpu.bus.cycles < MaxCycles => Invoke("Modelled", <<cpu>>)

----------------------------------------------------------------------------
(* Properties of the machine driven through the facade                     *)

\* C1: a host that polls after every step sees poll_frame return true
\* exactly once for each completed PPU frame (the count of true polls is
\* the count of completed frames, or one more while the frame that was
\* reported is in its vertical blank), and a poll that follows a poll
\* with no step in between returns false.
C1_PollTrueOncePerFrame ==
    /\ obs.polled \in {obs.frames, obs.frames + 1}
    /\ obs.op = "poll" /\ obs.repoll => ~obs.ret

\* C2: in every step the number of PPU ticks is 3 times the increase of
\* the CPU cycle counter during that step.
C2_TicksAreThriceCycles ==
    [][obs'.op = "step" => obs'.ticks = 3 * (cpu'.bus.cycles - cpu.bus.cycles)]_vars

\* C3: a step that starts with a pending OAM DMA of page P copies, before
\* its opcode fetch, the 256 bytes of P in ascending order into OAM from
\* oamaddr on (OAM byte i = source byte i when oamaddr = 0), adds 514
\* cycles on top of the instruction's own, and clears the pending flag; a
\* step that starts with no DMA pending leaves OAM and the counter alone
\* before its fetch.
C3_OamDma ==
    obs.op = "step" =>
        IF obs.pre.pending
        THEN /\ \A i \in 0..255 :
                    Memory_get(obs.dmaed.oam, (obs.pre.oamaddr + i) % 256) = obs.pre.src[i]
             /\ obs.pre.oamaddr = 0 =>
                    \A i \in 0..255 : Memory_get(obs.dmaed.oam, i) = obs.pre.src[i]
             /\ obs.dmaed.cycles = obs.pre.cycles + 514
             /\ cpu.bus.cycles = obs.pre.cycles + 514 + obs.cycles
             /\ ~obs.dmaed.pending
        ELSE /\ obs.dmaed.oam = obs.pre.oam
             /\ obs.dmaed.cycles = obs.pre.cycles
             /\ cpu.bus.cycles = obs.pre.cycles + obs.cycles

\* a step has made a DMA of a page that holds distinct, non-zero bytes at
\* two places
C3_Witness ==
    /\ obs.op = "step" /\ obs.pre.pending /\ obs.pre.oamaddr = 0
    /\ obs.pre.src[0] # 0 /\ obs.pre.src[3] # 0 /\ obs.pre.src[0] # obs.pre.src[3]
    /\ Memory_get(obs.dmaed.oam, 3) = obs.pre.src[3]

\* C5: a step whose catch-up processes scanline 241 dot 1 with ctrl bit 7
\* set services one NMI before it returns: PCH, PCL of the next
\* instruction and P with B = 0, U = 1 are pushed in this order, I is set,
\* PC is the word at $FFFA and trigger_nmi is clear; a step services no
\* NMI for a dot 241:1 processed with ctrl bit 7 clear, nor without that dot.
C5_NmiAtVblank ==
    obs.op = "step" =>
        /\ obs.nmis = Cardinality({i \in DOMAIN obs.vbl : obs.vbl[i] = 1})
        /\ ~cpu.bus.ppu.trigger_nmi
        /\ obs.nmis = 1 =>
             LET sp0     == obs.execd.sp
                 slot(k) == Memory_get(cpu.bus.ram, 256 + ((sp0 - k) % 256))
             IN  /\ slot(0) = obs.execd.pc \div 256
                 /\ slot(1) = obs.execd.pc % 256
                 /\ (slot(2) \div 16) % 2 = 0
                 /\ (slot(2) \div 32) % 2 = 1
                 /\ slot(2) % 16 = obs.execd.p % 16
                 /\ slot(2) \div 64 = obs.execd.p \div 64
                 /\ cpu.sp = (sp0 - 3) % 256
                 /\ (cpu.p \div 4) % 2 = 1
                 /\ cpu.pc = Memory_get(cpu.bus.ppu.rom.mapper.prg_rom, 16378)
                             + 256 * Memory_get(cpu.bus.ppu.rom.mapper.prg_rom, 16379)

\* an NMI has been taken at a vertical blank
C5_WitnessTaken ==
    obs.op = "step" /\ obs.vbl = <<1>> /\ obs.nmis = 1 /\ cpu.pc = 32800

----------------------------------------------------------------------------
(* Runs of the machine that serve as starting points of the component      *)
(* specifications                                                          *)

\* n copies of `code`
RepCode(n, code) == [i \in 1..(n * Len(code)) |-> code[((i - 1) % Len(code)) + 1]]

\* $8000  STA $4014 (57 times)           57 OAM DMAs, 514 cycles each
\*        `first`                        NOP, or a JMP to the next address
\*        NOP (61 times)
\*        JMP $80FE
\* $80FE  BPL $80FE
\* The cycle counter passes the PPU warm-up while the PPU, which is not
\* ticked for the cycles of a DMA, is still on scanline 3.
ProgBurn(first) ==
    Place(0, RepCode(57, <<141, 20, 64>>) \o first \o RepCode(61, <<234>>)
             \o <<76, 254, 128>>)
    @@ Place(254, <<16, 254>>)
    @@ Vectors(33022, 32768, 33022)

ProgBurnOdd  == ProgBurn(<<234>>)
ProgBurnEven == ProgBurn(<<76, 174, 128>>)

\* n calls of Nes::step, made in blocks of blocks of RunBlockLen calls
RunBlockLen == 20

RECURSIVE RunBlock(_, _)
RunBlock(c, n) ==
    IF n = 0 THEN c
    ELSE LET Rest(d) == IF d.bus.cycles >= 0 THEN RunBlock(d, n - 1) ELSE d
         IN  Rest(Invoke("Nes_step", <<c>>))

RECURSIVE RunBlocks(_, _)
RunBlocks(c, n) ==
    IF n <= RunBlockLen THEN RunBlock(c, n)
    ELSE LET Rest(d) == IF d.bus.cycles >= 0
                        THEN RunBlocks(d, n - RunBlockLen) ELSE d
         IN  Rest(RunBlock(c, RunBlockLen))

RECURSIVE Run(_, _)
Run(c, n) ==
    IF n <= RunBlockLen * RunBlockLen THEN RunBlocks(c, n)
    ELSE LET Rest(d) == IF d.bus.cycles >= 0
                        THEN Invoke("Run", <<d, n - RunBlockLen * RunBlockLen>>) ELSE d
         IN  Rest(RunBlocks(c, RunBlockLen * RunBlockLen))

----------------------------------------------------------------------------
(* The Bus as a component: CPU reads and writes of Bus::read / Bus::write  *)
(* made in states the machine reaches.                                     *)

\* number of bus accesses made in a behaviour
MaxOps == 2

\* RAM addresses and mirrors; the PPU registers and mirrors of them
BusAddrs ==
    { 1, 2049, 6143, 8191,
      8192, 8193, 8195, 8196, 8197, 8198, 8199,
      16376, 16382 }

BusData == {0, 90, 167}

\* before Nes::on; after it; at the last cycle of the warm-up; past it
BusStarts ==
    { Nes_set_rom(Nes_new, NromRom(0, ProgBurnOdd)),
      Invoke("PowerOn", <<ProgBurnOdd>>),
      Invoke("Run", <<Invoke("PowerOn", <<ProgBurnOdd>>), 119>>),
      Invoke("Run", <<Invoke("PowerOn", <<ProgBurnEven>>), 119>>) }

InitBus ==
    /\ cpu \in BusStarts
    /\ host = "run"
    /\ obs = NoObs

BusWrite ==
    /\ obs.ops < MaxOps
    /\ \E addr \in BusAddrs, data \in BusData :
          /\ cpu' = [cpu EXCEPT !.bus = Invoke("Bus_write", <<cpu.bus, addr, data>>)]
          /\ obs' = [obs EXCEPT !.op = "write", !.addr = addr, !.data = data,
                                !.ops = @ + 1]
    /\ UNCHANGED host

BusRead ==
    /\ obs.ops < MaxOps
    /\ \E addr \in BusAddrs :
          LET Read(r) ==
                  /\ cpu' = [cpu EXCEPT !.bus = r.st]
                  /\ obs' = [obs EXCEPT !.op = "read", !.addr = addr, !.val = r.val,
                                        !.ops = @ + 1]
          IN  Read(Invoke("Bus_read", <<cpu.bus, addr>>))
    /\ UNCHANGED host

NextBus == BusWrite \/ BusRead

SpecBus == InitBus /\ [][NextBus]_vars

\* C7: after a bus write of d to an address a below $2000, bus reads of a,
\* a XOR $0800, a XOR $1000 and a XOR $1800 all return d, and no RAM byte
\* other than index a mod $800 has changed.
C7_RamMirrors ==
    [][ obs'.op = "write" /\ obs'.addr < 8192 =>
          /\ \A m \in {0, 2048, 4096, 6144} :
                Invoke("Bus_read", <<cpu'.bus, BitXor(obs'.addr, m)>>).val = obs'.data
          /\ \A i \in 0..2047 :
                i # obs'.addr % 2048 =>
                    Memory_get(cpu'.bus.ram, i) = Memory_get(cpu.bus.ram, i)
          /\ ~cpu'.bus.ram.fault ]_vars

\* a non-zero byte written through the last mirror over a different byte
C7_Witness ==
    /\ obs.op = "write" /\ obs.addr = 6143 /\ obs.data = 167 /\ obs.ops = 2
    /\ Memory_get(cpu.bus.ram, 2047) = 167
    /\ Memory_get(cpu.bus.ram, 1) = 90

\* C10: after reset and while the cycle counter is below 29658, a write to
\* $2000, $2001, $2005 or $2006 or a mirror of them changes nothing of the
\* PPU but open_bus; writes to $2003, $2004 and $2007 take effect at any
\* time, and so do writes to the four registers from cycle 29658 on.
C10_WarmUpWrites ==
    [][ obs'.op = "write" /\ obs'.addr >= 8192 /\ obs'.addr < 16384 =>
          LET reg  == obs'.addr % 8
              d    == obs'.data
              p    == cpu.bus.ppu
              q    == cpu'.bus.ppu
              warm == cpu.bus.reset /\ cpu.bus.cycles < 29658
          IN  /\ q.open_bus = d
              /\ reg \in {0, 1, 5, 6} /\ warm => q = [p EXCEPT !.open_bus = d]
              /\ reg = 0 /\ ~warm =>
                    /\ q.ctrl = d
                    /\ (q.t \div 1024) % 4 = d % 4
              /\ reg = 1 /\ ~warm => q.mask = d
              /\ reg = 5 /\ ~warm =>
                    /\ q.w = ~p.w
                    /\ ~p.w => q.x = d % 8 /\ q.t % 32 = d \div 8
                    /\ p.w => /\ (q.t \div 32) % 32 = d \div 8
                              /\ (q.t \div 4096) % 8 = d % 8
              /\ reg = 6 /\ ~warm =>
                    /\ q.w = ~p.w
                    /\ ~p.w => q.t \div 256 = d % 64
                    /\ p.w => q.t % 256 = d /\ q.v = q.t
              /\ reg = 3 => q.oamaddr = d
              /\ reg = 4 => /\ Memory_get(q.oam, p.oamaddr) = d
                            /\ q.oamaddr = (p.oamaddr + 1) % 256
              /\ reg = 7 => q.v = (p.v + (IF (p.ctrl \div 4) % 2 = 1 THEN 32 ELSE 1)) % 32768
      ]_vars

\* a write to a mirror of $2006 at the last cycle of the warm-up was dropped
C10_Witness ==
    /\ obs.op = "write" /\ obs.addr = 16382 /\ obs.data = 167
    /\ cpu.bus.reset /\ cpu.bus.cycles = 29657
    /\ cpu.bus.ppu.t = 0 /\ ~cpu.bus.ppu.w /\ cpu.bus.ppu.open_bus = 167

----------------------------------------------------------------------------
(* The host loop of SDLWrapper::run, `loop { step(); if poll_frame() {     *)
(* break; } }`.  The cycle counter is read by                              *)
(* Bus::ignore_ppu_writes alone, which compares it with the length of the  *)
(* warm-up, so it is kept up to that length and no further; the history    *)
(* keeps the result of the last poll only.                                 *)

Saturate(c) ==
    [c EXCEPT !.bus.cycles = IF @ > PPU_WARMUP_CYCLES THEN PPU_WARMUP_CYCLES ELSE @]

\* number of iterations after which the loop is observed: the warm-up and
\* the first vertical blank are over
IdleSteps == 7500

\* The machine after IdleSteps iterations of the host loop on ProgIdle, every
\* poll of which returned false: ProgIdle leaves ctrl at 0.
IdleStart == Saturate(Invoke("Run", <<Invoke("PowerOn", <<ProgIdle>>), IdleSteps>>))

InitLoop ==
    /\ cpu = IdleStart
    /\ host = "run"
    /\ obs = NoObs

LoopIteration ==
    /\ host = "run"
    /\ Invoke("Modelled", <<cpu>>)
    /\ LET Poll(r) ==
               /\ cpu' = Saturate(r.st)
               /\ obs' = [NoObs EXCEPT !.op = "step", !.ret = r.val, !.ops = 1]
               /\ host' = IF r.val THEN "present" ELSE "run"
       IN  Poll(Nes_poll_frame(Invoke("Nes_step", <<cpu>>)))

NextLoop == LoopIteration

LoopSpec == InitLoop /\ [][NextLoop]_vars

\* C6: the host loop `step until poll_frame` terminates.  The machine is
\* deterministic and the loop ends only when poll_frame returns true, so
\* a loop that terminates never comes back, still running, to a state of
\* the machine it has been in.
C6_LoopTerminates == ~(host = "run" /\ obs.ops = 1 /\ cpu = IdleStart)

----------------------------------------------------------------------------
(* The PPU registers and the PPU clock                                     *)

\* $8000  STA $4014 (58 times)           58 OAM DMAs: past the PPU warm-up
\* $80AE  LDA #$03 ; STA $2000           nametable 3, NMI off
\* $80B3  LDA #$FF ; STA $2005 ; STA $2005
\* $80BB  LDX $2002 ; BPL $80BB          wait for the VBlank flag
\* $80C0  LDA #$08 ; STA $2001           background rendering on
\* $80C5  NOP
\* $80C6  JMP $80C6
ProgRender ==
    Place(0, RepCode(58, <<141, 20, 64>>)
             \o <<169, 3, 141, 0, 32, 169, 255, 141, 5, 32, 141, 5, 32>>
             \o <<174, 2, 32, 16, 251>>
             \o <<169, 8, 141, 1, 32>>
             \o <<234>>
             \o <<76, 198, 128>>)
    @@ Vectors(32966, 32768, 32966)

\* number of PPU ticks made in a behaviour
MaxTicks == 3

\* Nes::step calls of ProgRender up to the states the behaviours start in:
\* the PPU is about to process scanline 241 dot 1; then at pre-render dot
\* 255, dot 300 and dot 327; then at dot 255 of visible scanline 7
StepsToVblank  == 7817
StepsToCopyH   == 786
StepsToCopyV   == 5
StepsToFetch   == 3
StepsToVisible == 295

\* $2000, $2001, $2005, $2006, $2007 are written; $2002, $2007 are read
PpuWrites == {8192, 8193, 8197, 8198, 8199}
PpuReads  == {8194, 8199}
PpuData   == {0, 173, 255}

\* the registers of the PPU before the last call
Regs(p) ==
    [ v |-> p.v, t |-> p.t, x |-> p.x, w |-> p.w, status |-> p.status,
      ctrl |-> p.ctrl, open_bus |-> p.open_bus,
      scanline |-> p.scanline, cycle |-> p.cycle ]

\* History: the last call, and `vblank`: "set" when scanline 241 dot 1 was
\* processed after the last $2002 read, "clear" when a $2002 read came
\* after it, "unknown" before either is seen.
NoPpuObs ==
    [ op |-> "none", addr |-> 0, data |-> 0, val |-> 0, ops |-> 0, ticked |-> 0,
      vblank |-> "unknown", was_vblank |-> "unknown",
      was |-> Regs(Ppu_new) ]

\* the machine after each of the runs of ns, made one after the other
RECURSIVE RunEach(_, _)
RunEach(c, ns) ==
    IF ns = <<>> THEN {}
    ELSE LET Rest(d) == {d} \cup Invoke("RunEach", <<d, Tail(ns)>>)
         IN  Rest(Invoke("Run", <<c, Head(ns)>>))

InitPpu ==
    /\ cpu \in Invoke("RunEach", <<Invoke("PowerOn", <<ProgRender>>),
                        <<StepsToVblank, StepsToCopyH, StepsToCopyV,
                          StepsToFetch, StepsToVisible>>>>)
    /\ host = "run"
    /\ obs = NoPpuObs

\* one PPU tick, as Cpu::step makes them
PpuTick ==
    /\ obs.ticked < MaxTicks
    /\ cpu' = [cpu EXCEPT !.bus.ppu = Invoke("Ppu_step", <<@>>)]
    /\ obs' = [obs EXCEPT !.op = "tick", !.ticked = @ + 1,
                          !.was = Regs(cpu.bus.ppu),
                          !.was_vblank = obs.vblank,
                          !.vblank = IF cpu.bus.ppu.scanline = 241
                                        /\ cpu.bus.ppu.cycle = 1
                                     THEN "set" ELSE @]
    /\ UNCHANGED host

PpuWrite ==
    /\ obs.ops < MaxOps
    /\ \E addr \in PpuWrites, data \in PpuData :
          /\ cpu' = [cpu EXCEPT !.bus = Invoke("Bus_write", <<@, addr, data>>)]
          /\ obs' = [obs EXCEPT !.op = "write", !.addr = addr, !.data = data,
                                !.ops = @ + 1,
                                !.was = Regs(cpu.bus.ppu),
                                !.was_vblank = obs.vblank]
    /\ UNCHANGED host

PpuRead ==
    /\ obs.ops < MaxOps
    /\ \E addr \in PpuReads :
          LET Read(r) ==
                  /\ cpu' = [cpu EXCEPT !.bus = r.st]
                  /\ obs' = [obs EXCEPT !.op = "read", !.addr = addr, !.val = r.val,
                                        !.ops = @ + 1,
                                        !.was = Regs(cpu.bus.ppu),
                                        !.was_vblank = obs.vblank,
                                        !.vblank = IF addr = 8194 THEN "clear" ELSE @]
          IN  Read(Invoke("Bus_read", <<cpu.bus, addr>>))
    /\ UNCHANGED host

NextPpu == PpuTick \/ PpuWrite \/ PpuRead

SpecPpu == InitPpu /\ [][NextPpu]_vars

\* C4: processing scanline 241 dot 1 sets bit 7 of status; the first read
\* of $2002 after that returns bit 7 set, every further read returns it
\* clear until that dot is processed again, and every read of $2002 leaves
\* bit 7 and the write toggle w clear.
C4_VblankFlag ==
    [][ /\ (obs'.op = "tick" /\ cpu.bus.ppu.scanline = 241 /\ cpu.bus.ppu.cycle = 1)
            => Bit(cpu'.bus.ppu.status, 7) = 1
        /\ (obs'.op = "read" /\ obs'.addr = 8194)
            => /\ obs.vblank = "set" => Bit(obs'.val, 7) = 1
               /\ obs.vblank = "clear" => Bit(obs'.val, 7) = 0
               /\ Bit(cpu'.bus.ppu.status, 7) = 0
               /\ ~cpu'.bus.ppu.w ]_vars

\* the first $2002 read after the VBlank dot, made with w set
C4_Witness ==
    /\ obs.op = "read" /\ obs.addr = 8194
    /\ obs.was_vblank = "set" /\ obs.was.w
    /\ Bit(obs.val, 7) = 1
    /\ Bit(cpu.bus.ppu.status, 7) = 0 /\ ~cpu.bus.ppu.w

\* C8: v and t never exceed $7FFF.
C8_FifteenBits ==
    /\ cpu.bus.ppu.v <= 32767
    /\ cpu.bus.ppu.t <= 32767

\* a $2007 access at v = $7FFF wraps v to 0
C8_Witness ==
    /\ obs.op \in {"read", "write"} /\ obs.addr = 8199
    /\ obs.was.v = 32767
    /\ cpu.bus.ppu.v = 0

\* C9: with mask bit 3 or 4 set, the tick that takes the dot counter to 257
\* on a scanline 0..239 or 261 leaves bits $041F of v equal to those of t
\* and the other bits of v as they were.
C9_CopyHorizontal ==
    [][ ( /\ obs'.op = "tick"
          /\ cpu'.bus.ppu.cycle = 257
          /\ (cpu'.bus.ppu.scanline < 240 \/ cpu'.bus.ppu.scanline = 261)
          /\ (Bit(cpu'.bus.ppu.mask, 3) = 1 \/ Bit(cpu'.bus.ppu.mask, 4) = 1) )
        => /\ BitAnd(cpu'.bus.ppu.v, 1055) = BitAnd(cpu'.bus.ppu.t, 1055)
           /\ BitAnd(cpu'.bus.ppu.v, Not16(1055)) = BitAnd(cpu.bus.ppu.v, Not16(1055))
      ]_vars

\* dot 257 reached on a visible scanline with bit 10 and the coarse x of v
\* different from those of t
C9_Witness ==
    /\ obs.op = "tick" /\ cpu.bus.ppu.cycle = 257 /\ cpu.bus.ppu.scanline = 7
    /\ Bit(cpu.bus.ppu.mask, 3) = 1
    /\ Bit(obs.was.v, 10) # Bit(cpu.bus.ppu.t, 10)
    /\ obs.was.v % 32 # cpu.bus.ppu.t % 32
    /\ BitAnd(cpu.bus.ppu.v, 1055) = BitAnd(cpu.bus.ppu.t, 1055)

----------------------------------------------------------------------------
(* The facade driven by arbitrary calls, on cartridges built by Rom::new   *)

\* Nes::set_button is called by the host (cli/src/sdl_wrapper.rs:141) and
\* is not in src/lib.rs; it updates the state of controller 1.
Nes_set_button(c, button, pressed) ==
    [c EXCEPT !.bus.controller1 = Controller_set_button(@, button, pressed)]

\* An iNES 1.0 image: a header for the mapper number, PRG banks of 16 KiB,
\* CHR banks of 8 KiB and byte 6 low nibble `flags`; `prog` fills every
\* PRG bank.
Image(mapper, prg_banks, chr_banks, flags, prog) ==
    [ len   |-> HEADER_SIZE + prg_banks * 16384 + chr_banks * 8192,
      bytes |-> Place(0, <<78, 69, 83, 26, prg_banks, chr_banks>>)
                @@ (IF (mapper % 16) * 16 + flags # 0
                    THEN (6 :> ((mapper % 16) * 16 + flags)) ELSE <<>>)
                @@ (IF mapper \div 16 # 0
                    THEN (7 :> ((mapper \div 16) * 16)) ELSE <<>>)
                @@ [k \in {HEADER_SIZE + bank * 16384 + a :
                             bank \in 0..(prg_banks - 1), a \in DOMAIN prog}
                      |-> prog[(k - HEADER_SIZE) % 16384]] ]

\* $8000  LDA $2007 ; JMP $8000          reads PPU memory at v = 0
ProgPeek ==
    Place(0, << 173, 7, 32, 76, 0, 128 >>) @@ Vectors(32768, 32768, 32768)

Carts ==
    { Image(0, 1, 0, 0, ProgNmi),
      Image(0, 2, 1, 1, ProgPeek),
      Image(1, 1, 1, 0, ProgToggle),
      Image(1, 1, 0, 0, ProgPeek),
      Image(0, 4, 0, 0, ProgToggle) }

\* bound of the number of calls
MaxCalls == 4

ApiButtons == {"a", "right"}

Mapper_aborted(mp) ==
    \/ mp.prg_rom.fault \/ mp.chr_rom.fault \/ mp.prg_ram.fault
    \/ IF Mapper_is_m1(mp) THEN mp.overflow \/ mp.panicked
       ELSE mp.asserted \/ mp.chr_ram.fault

\* some access of the run so far aborts the program (in a build with
\* overflow checks, for the arithmetic overflows)
Aborted(c) ==
    \/ c.overflow \/ c.bus.ram.fault
    \/ c.bus.ppu.overflow \/ c.bus.ppu.vram.fault \/ c.bus.ppu.palette.fault
    \/ c.bus.ppu.oam.fault \/ c.bus.ppu.frame_buffer.fault
    \/ Mapper_aborted(c.bus.ppu.rom.mapper)

\* `call` is the last call, `before` the machine before it; `twin` is a
\* second machine, constructed in the same way and given the same calls
Installed(img) == Nes_set_rom(Nes_new, Rom_new(img).rom)

InitApi ==
    /\ \E img \in Carts :
          LET On(c) == /\ cpu = Nes_on(c)
                       /\ obs = [call |-> "on", before |-> c, n |-> 0, ret |-> FALSE,
                                 twin |-> Nes_on(c), pressed |-> {}]
          IN  On(Installed(img))
    /\ host = "run"

ApiStep ==
    /\ obs.n < MaxCalls
    /\ Invoke("Modelled", <<cpu>>)
    /\ cpu' = Invoke("Nes_step", <<cpu>>)
    /\ obs' = [obs EXCEPT !.call = "step", !.before = cpu, !.n = @ + 1,
                          !.ret = FALSE, !.twin = Invoke("Nes_step", <<@>>)]
    /\ UNCHANGED host

\* Faulty variant of ApiReset: the reset reaches the first machine only.
ApiReset_one ==
    /\ obs.n < MaxCalls
    /\ cpu' = Nes_reset(cpu)
    /\ obs' = [obs EXCEPT !.call = "reset", !.before = cpu, !.n = @ + 1,
                          !.ret = FALSE]
    /\ UNCHANGED host

ApiReset ==
    /\ obs.n < MaxCalls
    /\ cpu' = Nes_reset(cpu)
    /\ obs' = [obs EXCEPT !.call = "reset", !.before = cpu, !.n = @ + 1,
                          !.ret = FALSE, !.twin = Nes_reset(@)]
    /\ UNCHANGED host

ApiSetButton ==
    /\ obs.n < MaxCalls
    /\ \E b \in ApiButtons, pressed \in BOOLEAN :
          /\ cpu' = Nes_set_button(cpu, b, pressed)
          /\ obs' = [obs EXCEPT !.call = "set_button", !.before = cpu, !.n = @ + 1,
                                !.ret = FALSE,
                                !.twin = Nes_set_button(@, b, pressed),
                                !.pressed = IF pressed THEN @ \cup {b} ELSE @ \ {b}]
    /\ UNCHANGED host

ApiPollFrame ==
    /\ obs.n < MaxCalls
    /\ LET Poll(r) ==
               /\ cpu' = r.st
               /\ obs' = [obs EXCEPT !.call = "poll_frame", !.before = cpu,
                                     !.n = @ + 1, !.ret = r.val,
                                     !.twin = Nes_poll_frame(@).st]
       IN  Poll(Nes_poll_frame(cpu))
    /\ UNCHANGED host

NextApi == ApiStep \/ ApiReset \/ ApiSetButton \/ ApiPollFrame

SpecApi == InitApi /\ [][NextApi]_vars

\* the machine with the fields that a reset writes put back
ResetFrame(c) ==
    [c EXCEPT !.pc = 0, !.sp = 0, !.p = BitAnd(@, Not8(InterruptDisable)),
              !.bus.cycles = 0, !.bus.reset = FALSE,
              !.bus.ppu = Ppu_new]

\* C11: a reset, and the power-on through on, sets I, takes 3 from SP
\* modulo 256, loads PC from the little-endian word at $FFFC/$FFFD, sets
\* bus.reset and the cycle counter to 7, and leaves A, X, Y, the other bits
\* of P and the CPU RAM (and everything else outside the PPU) as they were;
\* after the power-on of the constructed machine SP is 0xFD.
C11_ResetEffects ==
    (obs.call \in {"on", "reset"} /\ ~Aborted(cpu)) =>
        /\ BitAnd(cpu.p, InterruptDisable) # 0
        /\ cpu.sp = (obs.before.sp + 256 - 3) % 256
        /\ cpu.pc = Invoke("Bus_read", <<obs.before.bus, 65532>>).val
                    + 256 * Invoke("Bus_read", <<obs.before.bus, 65533>>).val
        /\ cpu.bus.reset
        /\ cpu.bus.cycles = 7
        /\ cpu.a = obs.before.a /\ cpu.x = obs.before.x /\ cpu.y = obs.before.y
        /\ BitAnd(cpu.p, Not8(InterruptDisable))
             = BitAnd(obs.before.p, Not8(InterruptDisable))
        /\ cpu.bus.ram = obs.before.bus.ram
        /\ ResetFrame(cpu) = ResetFrame(obs.before)
        /\ (obs.call = "on" => cpu.sp = 253)

\* a reset of a machine that has run: registers and RAM are not the
\* constructed ones
C11_Witness ==
    /\ obs.call = "reset" /\ ~Aborted(cpu)
    /\ obs.before.x = 255 /\ obs.before.sp = 255 /\ cpu.sp = 252
    /\ obs.before.bus.cycles > 7
    /\ cpu.pc = 32768


\* C18: with a cartridge of mapper 0 or 1 installed and the machine powered
\* on, no step aborts (no index out of range, division by zero, arithmetic
\* overflow or failed assertion), whatever the PRG and CHR sizes of the header.
C18_StepNeverAborts ==
    (obs.call = "step" /\ ~Aborted(obs.before)) => ~Aborted(cpu)

----------------------------------------------------------------------------
(* The controller port $4016                                               *)

\* bound of the number of set_button calls after the start
MaxPresses == 1
\* bound of the number of reads after a fall of the strobe
MaxReads == 8

PadButtons == {"start", "right"}

RECURSIVE Nes_set_buttons(_, _, _)
\* set_button for each of the buttons k..8, pressed when in `down`
Nes_set_buttons(c, k, down) ==
    IF k > 8 THEN c
    ELSE Nes_set_buttons(Nes_set_button(c, ButtonNames[k], ButtonNames[k] \in down),
                         k + 1, down)

\* `held` is the state of the buttons when the strobe last fell, `reads`
\* the number of reads of $4016 since (-1: no fall yet, or the strobe is
\* high again)
InitPad ==
    /\ \E down \in SUBSET {ButtonNames[k] : k \in 1..8} :
          cpu = Nes_set_buttons(Nes_new, 1, down)
    /\ host = "run"
    /\ obs = [op |-> "new", val |-> 0, presses |-> 0, reads |-> -1,
              held |-> Controller_new.buttons]

PadWrite ==
    \E data \in {0, 1, 2, 3} :
       /\ cpu' = [cpu EXCEPT !.bus = Invoke("Bus_write", <<cpu.bus, 16406, data>>)]
       /\ obs' = [obs EXCEPT
                    !.op = "write", !.val = data,
                    !.reads = IF data % 2 = 1 THEN -1
                              ELSE IF cpu.bus.controller1.strobe THEN 0 ELSE @,
                    !.held  = IF data % 2 = 0 /\ cpu.bus.controller1.strobe
                              THEN cpu.bus.controller1.buttons ELSE @]
       /\ UNCHANGED host

PadRead ==
    /\ obs.reads < MaxReads
    /\ LET Read(r) ==
               /\ cpu' = [cpu EXCEPT !.bus = r.st]
               /\ obs' = [obs EXCEPT !.op = "read", !.val = r.val,
                                     !.reads = IF @ >= 0 THEN @ + 1 ELSE @]
       IN  Read(Invoke("Bus_read", <<cpu.bus, 16406>>))
    /\ UNCHANGED host

PadSetButton ==
    /\ obs.presses < MaxPresses
    /\ \E b \in PadButtons, pressed \in BOOLEAN :
          cpu' = Nes_set_button(cpu, b, pressed)
    /\ obs' = [obs EXCEPT !.op = "set_button", !.presses = @ + 1]
    /\ UNCHANGED host

NextPad == PadWrite \/ PadRead \/ PadSetButton

SpecPad == InitPad /\ [][NextPad]_vars

\* C12: after a write to $4016 with bit 0 set and then one with bit 0
\* clear, the k-th of the next eight reads of $4016 returns the state (0 or
\* 1) of the k-th of A, B, Select, Start, Up, Down, Left, Right as it was
\* when the strobe fell, whatever set_button calls came after the fall.
C12_EightReads ==
    (obs.op = "read" /\ obs.reads \in 1..8) =>
        obs.val = IF obs.held[ButtonNames[obs.reads]] THEN 1 ELSE 0

\* the eighth read returns Right, pressed at the fall and released since
C12_Witness ==
    /\ obs.op = "read" /\ obs.reads = 8 /\ obs.val = 1
    /\ obs.held.right /\ ~cpu.bus.controller1.buttons.right
    /\ ~obs.held.a /\ obs.held.select /\ ~obs.held.start

\* the byte of the button states: A in bit 7, then B, Select, Start, Up,
\* Down, Left, and Right in bit 0
Encoding(buttons) ==
    LET Pressed(k) == IF buttons[ButtonNames[k]] THEN 1 ELSE 0
    IN  128 * Pressed(1) + 64 * Pressed(2) + 32 * Pressed(3) + 16 * Pressed(4)
        + 8 * Pressed(5) + 4 * Pressed(6) + 2 * Pressed(7) + Pressed(8)

\* C36: while the strobe is high, whatever writes and reads of $4016 and
\* set_button calls were made, the shift register is the encoding of the
\* current button states, and a read returns the current state of A (and
\* leaves the register as it is).
C36_StrobeTracksButtons ==
    cpu.bus.controller1.strobe
    => /\ cpu.bus.controller1.shift_register
            = Encoding(cpu.bus.controller1.buttons)
       /\ obs.op = "read"
            => obs.val = (IF cpu.bus.controller1.buttons.a THEN 1 ELSE 0)

\* a read with the strobe high returned 1 for A, after a set_button call,
\* and the register still holds A and Start, the buttons pressed
C36_Witness ==
    /\ cpu.bus.controller1.strobe
    /\ obs.op = "read" /\ obs.val = 1 /\ obs.presses = 1
    /\ cpu.bus.controller1.shift_register = 144
    /\ Encoding(cpu.bus.controller1.buttons) = 144

----------------------------------------------------------------------------
(* CPU writes to the registers of an MMC1 cartridge                        *)

\* bound of the number of writes
MaxWrites == 8

\* one address for each of control, chr-bank-0, chr-bank-1, prg-bank
MmcAddrs == {32768, 49151, 53248, 65535}
\* bit 0 clear, bit 0 set (with bit 1), bit 7 set (with bit 0)
MmcData == {0, 3, 129}

Mmc1Regs(mp) ==
    [ control |-> mp.control, chr_bank_0 |-> mp.chr_bank_0,
      chr_bank_1 |-> mp.chr_bank_1, prg_bank |-> mp.prg_bank ]

\* `bits` are the bits 0 of the writes with bit 7 clear since the last
\* write with bit 7 set or the last fifth bit; `before` and `pending` are
\* the registers and `bits` before the last write
InitMmc ==
    /\ cpu = Nes_on(Installed(Image(1, 2, 1, 0, ProgToggle)))
    /\ host = "run"
    /\ obs = [op |-> "on", addr |-> 0, data |-> 0, n |-> 0, bits |-> <<>>,
              pending |-> <<>>,
              before |-> Mmc1Regs(Mapper1_new(0, 0, NoBytes, NoBytes))]

MmcWrite ==
    /\ obs.n < MaxWrites
    /\ \E addr \in MmcAddrs, data \in MmcData :
          /\ cpu' = [cpu EXCEPT !.bus = Invoke("Bus_write", <<cpu.bus, addr, data>>)]
          /\ obs' = [obs EXCEPT
                       !.op = "write", !.addr = addr, !.data = data, !.n = @ + 1,
                       !.pending = obs.bits,
                       !.bits = IF data >= 128 \/ Len(obs.bits) = 4 THEN <<>>
                                ELSE Append(obs.bits, data % 2),
                       !.before = Mmc1Regs(cpu.bus.ppu.rom.mapper)]
    /\ UNCHANGED host

NextMmc == MmcWrite

SpecMmc == InitMmc /\ [][NextMmc]_vars

\* the value of five serial bits, the first the least significant
SerialValue(bits) ==
    bits[1] + 2 * bits[2] + 4 * bits[3] + 8 * bits[4] + 16 * bits[5]

\* the register that bits 13 and 14 of the address select
Selected(addr) ==
    CASE (addr \div 8192) % 4 = 0 -> "control"
      [] (addr \div 8192) % 4 = 1 -> "chr_bank_0"
      [] (addr \div 8192) % 4 = 2 -> "chr_bank_1"
      [] (addr \div 8192) % 4 = 3 -> "prg_bank"

\* C13: of five consecutive writes with bit 7 clear that start from a reset
\* shift state, the first four change none of control, chr-bank-0,
\* chr-bank-1, prg-bank; the fifth stores the value of the five bits 0
\* (first write least significant) in the register selected by bits 13-14
\* of its address and in no other, and the shift register and the counter
\* are 0b10000 and 0 again.
C13_SerialLoad ==
    (obs.op = "write" /\ obs.data < 128) =>
        LET mp == cpu.bus.ppu.rom.mapper
        IN  IF Len(obs.pending) < 4
            THEN Mmc1Regs(mp) = obs.before
            ELSE /\ Mmc1Regs(mp) =
                      [obs.before EXCEPT ![Selected(obs.addr)] =
                           SerialValue(Append(obs.pending, obs.data % 2))]
                 /\ mp.shift_register = 16
                 /\ mp.shift_count = 0

\* the writes 0, 1, 1, 0, 0 of bit 0 make the prg-bank register 6
C13_Witness ==
    /\ obs.op = "write" /\ obs.data < 128
    /\ obs.pending = <<0, 1, 1, 0>> /\ obs.data % 2 = 0
    /\ obs.addr = 65535
    /\ cpu.bus.ppu.rom.mapper.prg_bank = 6
    /\ cpu.bus.ppu.rom.mapper.control = 12

\* C14: a write with bit 7 set, after 0 to 4 pending serial bits, discards
\* them (the shift register and the counter are 0b10000 and 0 as after
\* construction, and the next load takes five more writes with bit 7
\* clear), sets control to control | 0x0C and leaves chr-bank-0, chr-bank-1
\* and prg-bank as they were.
C14_ResetWrite ==
    LET mp == cpu.bus.ppu.rom.mapper
    IN  /\ (obs.op = "write" /\ obs.data >= 128) =>
              /\ Len(obs.pending) \in 0..4
              /\ Mmc1Regs(mp) = [obs.before EXCEPT !.control = BitOr(@, 12)]
              /\ mp.shift_register = 16
              /\ mp.shift_count = 0
        /\ (obs.op = "write" /\ obs.data < 128 /\ Mmc1Regs(mp) # obs.before) =>
              Len(obs.pending) = 4

\* a write with bit 7 set that drops two bits and sets the PRG mode bits
\* that a load of control had cleared
C14_Witness ==
    /\ obs.op = "write" /\ obs.data >= 128 /\ Len(obs.pending) = 2
    /\ obs.before.control = 3 /\ cpu.bus.ppu.rom.mapper.control = 15

----------------------------------------------------------------------------
(* PPU memory writes and the palette                                       *)

\* bound of the number of writes
MaxPalWrites == 2

\* $3F00 $3F10 $3F04 $3F14 $3F08 $3F1C, $3F01 $3F11, the mirrors $3F30
\* $3FEC $3FFF, and the nametable byte $2C10
PalAddrs == {16128, 16144, 16132, 16148, 16136, 16156, 16129, 16145,
             16176, 16364, 16383, 11280}
PalData == {21, 42}

InitPal ==
    /\ cpu = Nes_on(Installed(Image(0, 1, 0, 0, ProgIdle)))
    /\ host = "run"
    /\ obs = [op |-> "on", addr |-> 0, data |-> 0, n |-> 0]

PalWrite ==
    /\ obs.n < MaxPalWrites
    /\ \E addr \in PalAddrs, data \in PalData :
          /\ cpu' = [cpu EXCEPT !.bus.ppu = Ppu_write(@, addr, data)]
          /\ obs' = [op |-> "write", addr |-> addr, data |-> data, n |-> obs.n + 1]
    /\ UNCHANGED host

NextPal == PalWrite

SpecPal == InitPal /\ [][NextPal]_vars

\* C15: after any PPU memory writes, a read of $3F10 + k returns the byte
\* of $3F00 + k for k = 0, 4, 8, 12, and the palette repeats every $20
\* bytes up to $3FFF.
C15_PaletteMirrors ==
    \A a \in 16128..16383 :
        LET Same(b) == Invoke("Ppu_read", <<cpu.bus.ppu, a>>).val = Invoke("Ppu_read", <<cpu.bus.ppu, b>>).val
        IN  Same(IF a >= 16160 THEN a - 32
                 ELSE IF a \in {16144, 16148, 16152, 16156} THEN a - 16 ELSE a)

\* a write through $3F10 read back at $3F00 and at the mirror $3FE0, with
\* another entry that differs
C15_Witness ==
    /\ obs.op = "write" /\ obs.addr = 16144 /\ obs.data = 42
    /\ Invoke("Ppu_read", <<cpu.bus.ppu, 16128>>).val = 42
    /\ Invoke("Ppu_read", <<cpu.bus.ppu, 16352>>).val = 42
    /\ Invoke("Ppu_read", <<cpu.bus.ppu, 16129>>).val = 21

----------------------------------------------------------------------------
(* The cycles charged to single instructions                               *)

\* bound of the number of steps
MaxInstr == 4

\* NOPs around the end of the page $80xx
NopField == [i \in 224..319 |-> 234]

\* at $8000 + at:  LDA #v ; BPL off      N is set by v = $80
ProgBranch(at, v, off) ==
    Place(at, <<169, v, 16, off>>) @@ NopField
    @@ Vectors(32768 + at, 32768 + at, 32768 + at)

\* $8000  LDX #x ; STA base,X / ASL base,X ; NOP
ProgIndexed(opcode, x, base) ==
    Place(0, <<162, x, opcode, Lo(base), Hi(base), 234, 234>>)
    @@ Vectors(32768, 32768, 32768)

\* $8000  the instructions of seq ; NOP ; NOP ; NOP
ProgFlags(seq) ==
    Place(0, seq \o <<234, 234, 234>>) @@ Vectors(32768, 32768, 32768)

\* CLI, SEI, PLP alone and after one another; PHP ; CLI ; PLP pulls a byte
\* with bit 2 set while I is clear
FlagSequences ==
    { <<88>>, <<120>>, <<40>>, <<88, 120>>, <<120, 40>>, <<88, 120, 40>>,
      <<8, 88, 40>>, <<40, 120>> }

InstrPrograms ==
    { ProgBranch(at, v, off) : at \in 248..253, v \in {0, 128},
                               off \in {0, 1, 2, 250, 127} }
    \cup { ProgIndexed(opcode, x, base) : opcode \in {157, 30}, x \in {0, 1, 255},
                                           base \in {512, 767, 1808} }
    \cup { ProgFlags(seq) : seq \in FlagSequences }

\* `before` is the machine before the last step, `opcode` the opcode that
\* the step executed
InitInstr ==
    /\ \E prog \in InstrPrograms : cpu = Invoke("PowerOn", <<prog>>)
    /\ host = "run"
    /\ obs = [op |-> "on", opcode |-> 0, n |-> 0, before |-> Cpu_new]

InstrStep ==
    /\ obs.n < MaxInstr
    /\ Invoke("Modelled", <<cpu>>)
    /\ LET Step(tr) ==
               /\ cpu' = tr.st
               /\ obs' = [op |-> "step", opcode |-> tr.opcode, n |-> obs.n + 1,
                          before |-> cpu]
       IN  Step(Invoke("Cpu_step_trace", <<cpu>>))
    /\ UNCHANGED host

NextInstr == InstrStep

SpecInstr == InitInstr /\ [][NextInstr]_vars

\* the cycles that the last step added to the cycle counter
Charged == cpu.bus.cycles - obs.before.bus.cycles

\* the byte at pc + k of the instruction that the last step executed
Operand(k) == Invoke("Bus_read", <<obs.before.bus, Wrap16(obs.before.pc + k)>>).val

Page(addr) == addr \div 256

\* C16: a conditional branch is charged 2 cycles when it is not taken, 3
\* when it is taken to a target on the page of the following instruction,
\* 4 when it is taken to a target on another page; a branch that is not
\* taken gets no page-cross penalty.
C16_BranchCycles ==
    (obs.op = "step" /\ obs.opcode = 16) =>
        LET next   == Wrap16(obs.before.pc + 2)
            target == Wrap16(next + AsI8(Operand(1)) + 65536)
            taken  == BitAnd(obs.before.p, Negative) = 0
        IN  Charged = IF ~taken THEN 2
                      ELSE IF Page(target) = Page(next) THEN 3 ELSE 4

\* C17: a store or a read-modify-write instruction in an indexed mode adds
\* its base cycle count of the table to the cycle counter, whether the
\* indexed address crosses a page or not (STA abs,X: 5; ASL abs,X: 7).
C17_StoreCycles ==
    (obs.op = "step" /\ obs.opcode \in {157, 30}) =>
        Charged = OPCODE_TABLE[obs.opcode].min_cycles

----------------------------------------------------------------------------
(* Construction of a cartridge from an image                               *)

NesMagic == <<78, 69, 83, 26>>

\* an image of `len` bytes with the given first four bytes, PRG bank
\* count, byte 6 and byte 7, and zeros elsewhere
RomImage(magic, banks, b6, b7, len) ==
    [ len   |-> len,
      bytes |-> [k \in {j \in 0..7 : <<magic[1], magic[2], magic[3], magic[4],
                                       banks, 0, b6, b7>>[j + 1] # 0}
                   |-> <<magic[1], magic[2], magic[3], magic[4],
                         banks, 0, b6, b7>>[k + 1]] @@ <<>> ]

RomImages ==
    { RomImage(magic, banks, b6, b7, HEADER_SIZE + size * 16384) :
        magic \in {NesMagic, <<78, 69, 83, 0>>, <<0, 0, 0, 0>>},
        banks \in {0, 1, 2},
        b6    \in {0, 1, 16, 32, 240},
        b7    \in {0, 8, 16, 32, 240},
        size  \in {0, 2} }

\* main: Rom::new, then Nes::set_rom.  `ok` tells whether Rom::new returned.
InitRom ==
    /\ cpu = Nes_new
    /\ host = "start"
    /\ obs = [op |-> "new", ok |-> FALSE, image |-> RomImage(<<0, 0, 0, 0>>, 0, 0, 0, 0)]

LoadRom ==
    /\ host = "start"
    /\ \E img \in RomImages :
          LET Load(r) ==
                  /\ cpu' = IF r.ok THEN Nes_set_rom(cpu, r.rom) ELSE cpu
                  /\ host' = IF r.ok THEN "loaded" ELSE "failed"
                  /\ obs' = [op |-> "load", ok |-> r.ok, image |-> img]
          IN  Load(Rom_new(img))

\* Nes::on of a machine whose cartridge was constructed
RomOn ==
    /\ host = "loaded"
    /\ cpu' = Nes_on(cpu)
    /\ host' = "run"
    /\ obs' = [obs EXCEPT !.op = "on"]

NextRom == LoadRom \/ RomOn

SpecRom == InitRom /\ [][NextRom]_vars

ValidMagic(img) ==
    <<Image_byte(img, 0), Image_byte(img, 1), Image_byte(img, 2), Image_byte(img, 3)>>
        = NesMagic

\* the mapper number that an iNES header encodes: the high nibble of byte 7
\* as bits 4-7, the high nibble of byte 6 as bits 0-3
EncodedMapper(img) ==
    BitAnd(Image_byte(img, 7), 240) + Image_byte(img, 6) \div 16

\* C19: the construction of a cartridge fails for every image whose first
\* four bytes are not 'N', 'E', 'S', $1A and for every image whose header
\* encodes a mapper number other than 0 or 1: it succeeds only with a
\* valid magic and an encoded mapper number of 0 or 1.
C19_ConstructionFails ==
    (obs.op = "load" /\ obs.ok) =>
        /\ ValidMagic(obs.image)
        /\ EncodedMapper(obs.image) \in {0, 1}

----------------------------------------------------------------------------
(* Two machines given the same calls                                       *)

\* CPU registers, cycle counter, PPU state with the frame buffer
Observed(c) ==
    [ a |-> c.a, x |-> c.x, y |-> c.y, pc |-> c.pc, sp |-> c.sp, p |-> c.p,
      cycles |-> c.bus.cycles, ppu |-> c.bus.ppu ]

----------------------------------------------------------------------------
(* The NMI enable bit written during VBlank                                *)

\* C21: a write to $2000 that takes bit 7 of ctrl from 0 to 1 while bit 7
\* of status is set latches trigger_nmi; any other write to $2000 leaves
\* trigger_nmi as it was.
C21_NmiOnEnable ==
    [][ (obs'.op = "write" /\ obs'.addr = 8192 /\ ~Bus_ignore_ppu_writes(cpu.bus))
        => IF Bit(cpu.bus.ppu.ctrl, 7) = 0 /\ Bit(obs'.data, 7) = 1
              /\ Bit(cpu.bus.ppu.status, 7) = 1
           THEN cpu'.bus.ppu.trigger_nmi
           ELSE cpu'.bus.ppu.trigger_nmi = cpu.bus.ppu.trigger_nmi ]_vars

\* bit 7 of ctrl was set by a $2000 write made during VBlank, and no NMI
\* is latched
C21_Lost ==
    /\ obs.op = "write" /\ obs.addr = 8192
    /\ Bit(obs.was.ctrl, 7) = 0 /\ Bit(cpu.bus.ppu.ctrl, 7) = 1
    /\ Bit(obs.was.status, 7) = 1
    /\ ~cpu.bus.ppu.trigger_nmi

\* the I bit of P as the instruction of the next step finds it: the
\* pending update of the latch, if any, is applied before the fetch
FlagI(c) ==
    IF c.update_interrupt_disable[1]
    THEN (IF c.update_interrupt_disable[2] # 0 THEN 1 ELSE 0)
    ELSE Bit(c.p, 2)

\* the I bit that the instruction of the last step asked for
RequestedI ==
    CASE obs.opcode = 120 -> 1
      [] obs.opcode = 88  -> 0
      [] obs.opcode = 40  ->
            Bit(Invoke("Bus_read", <<obs.before.bus, 256 + Wrap8(obs.before.sp + 1)>>).val, 2)

\* C22: a step that executes PLP, SEI or CLI leaves the I bit of P as the
\* instruction found it; the step after it, here of a NOP, ends with the
\* I bit that the instruction asked for and with the latch empty.
C22_DeferredI ==
    [][ /\ (obs'.op = "step" /\ obs'.opcode \in {40, 88, 120})
            => Bit(cpu'.p, 2) = FlagI(cpu)
        /\ (obs.op = "step" /\ obs.opcode \in {40, 88, 120}
            /\ obs'.op = "step" /\ obs'.opcode = 234)
            => /\ Bit(cpu'.p, 2) = RequestedI
               /\ ~cpu'.update_interrupt_disable[1] ]_vars

\* the same for PLP and SEI alone
C22_DeferredPlpSei ==
    [][ /\ (obs'.op = "step" /\ obs'.opcode \in {40, 120})
            => /\ Bit(cpu'.p, 2) = FlagI(cpu)
               /\ cpu'.update_interrupt_disable[1]
        /\ (obs.op = "step" /\ obs.opcode \in {40, 120}
            /\ obs'.op = "step" /\ obs'.opcode = 234)
            => /\ Bit(cpu'.p, 2) = RequestedI
               /\ ~cpu'.update_interrupt_disable[1] ]_vars

\* a step executed CLI with I set and left I clear
C22_CliAtOnce ==
    /\ obs.op = "step" /\ obs.opcode = 88
    /\ FlagI(obs.before) = 1
    /\ Bit(cpu.p, 2) = 0

\* a step executed PLP with I clear and a pulled byte with bit 2 set: I is
\* still clear and the latch holds the update
C22_PlpPending ==
    /\ obs.op = "step" /\ obs.opcode = 40
    /\ FlagI(obs.before) = 0 /\ RequestedI = 1
    /\ Bit(cpu.p, 2) = 0 /\ cpu.update_interrupt_disable[1]

----------------------------------------------------------------------------
(* The byte read at $2002                                                  *)

\* C23: a read of $2002 returns bits 7-5 of the status register as it was
\* before the read and, in bits 4-0, the low five bits of open_bus.
C23_StatusByte ==
    [][ (obs'.op = "read" /\ obs'.addr = 8194)
        => obs'.val = BitOr(BitAnd(cpu.bus.ppu.status, 224),
                            BitAnd(cpu.bus.ppu.open_bus, 31)) ]_vars

\* a read of $2002 made after a register write of a byte with low bits set
\* returned the status register alone
C23_LowBitsLost ==
    /\ obs.op = "read" /\ obs.addr = 8194
    /\ BitAnd(obs.was.open_bus, 31) # 0
    /\ obs.val = obs.was.status
    /\ BitAnd(obs.val, 31) = 0

----------------------------------------------------------------------------
(* The write toggle of $2005 and $2006                                     *)

\* C24: $2005 and $2006 share the toggle w.  With w clear a $2005 write
\* sets x to data & 7 and bits 0-4 of t to data >> 3, and a $2006 write
\* sets bits 8-13 of t to data & $3F and clears bit 14 of t; with w set a
\* $2005 write sets bits 12-14 of t to data & 7 and bits 5-9 to data >> 3,
\* and a $2006 write sets bits 0-7 of t to data and copies t into v.  Each
\* of these writes flips w, v changes only in the last case, and a read of
\* $2002 clears w.
C24_SharedToggle ==
    [][ /\ (obs'.op = "write" /\ obs'.addr \in {8197, 8198}
            /\ ~Bus_ignore_ppu_writes(cpu.bus))
           => LET p == cpu.bus.ppu
                  q == cpu'.bus.ppu
                  d == obs'.data
              IN  /\ q.w = ~p.w
                  /\ (obs'.addr = 8197 /\ ~p.w)
                        => /\ q.x = d % 8
                           /\ q.t % 32 = d \div 8
                           /\ q.v = p.v
                  /\ (obs'.addr = 8198 /\ ~p.w)
                        => /\ (q.t \div 256) % 64 = d % 64
                           /\ Bit(q.t, 14) = 0
                           /\ q.v = p.v
                  /\ (obs'.addr = 8197 /\ p.w)
                        => /\ (q.t \div 4096) % 8 = d % 8
                           /\ (q.t \div 32) % 32 = d \div 8
                           /\ q.v = p.v
                  /\ (obs'.addr = 8198 /\ p.w)
                        => /\ q.t % 256 = d
                           /\ q.v = q.t
        /\ (obs'.op = "read" /\ obs'.addr = 8194) => ~cpu'.bus.ppu.w ]_vars

\* a first write to $2005 of $AD set x to 5, and the write to $2006 that
\* followed was taken as a second write: it copied t into v
C24_Witness ==
    /\ obs.op = "write" /\ obs.addr = 8198 /\ obs.data = 173
    /\ obs.was.w /\ obs.was.x = 5 /\ cpu.bus.ppu.x = 5
    /\ ~cpu.bus.ppu.w
    /\ cpu.bus.ppu.v = cpu.bus.ppu.t /\ cpu.bus.ppu.v # obs.was.v
    /\ cpu.bus.ppu.v % 256 = 173

----------------------------------------------------------------------------
(* PPU memory written and read back through $2006 / $2007                  *)

\* $8000  STA $4014 (59 times) ; JMP $80B1     the warm-up of the PPU passes
ProgWarm ==
    Place(0, RepCode(59, <<141, 20, 64>>) \o <<76, 177, 128>>)
    @@ Vectors(32768, 32768, 32768)

\* Nes::step calls of ProgWarm made before the accesses
WarmSteps == 59

\* PPU addresses in the pattern tables ($0000-$1FFF) and the nametables
\* with their mirror ($2000-$3EFF), and the bytes written
ChrAddrs == {0, 1, 4095, 8191, 8192, 9216, 12288, 16127}
ChrData  == {1, 173}

\* The accesses of one round trip, in order: ctrl, v = a, write d, v = a,
\* two reads.
RoundTrip(a, d, ctrl) ==
    << [op |-> "write", addr |-> 8192, data |-> ctrl],
       [op |-> "write", addr |-> 8198, data |-> Hi(a)],
       [op |-> "write", addr |-> 8198, data |-> Lo(a)],
       [op |-> "write", addr |-> 8199, data |-> d],
       [op |-> "write", addr |-> 8198, data |-> Hi(a)],
       [op |-> "write", addr |-> 8198, data |-> Lo(a)],
       [op |-> "read",  addr |-> 8199, data |-> 0],
       [op |-> "read",  addr |-> 8199, data |-> 0] >>

\* A mapper-0 cartridge without CHR-ROM, past the warm-up.  `todo` holds
\* the accesses still to make, `reads` the bytes read so far.
InitChr ==
    /\ cpu = Invoke("Run", <<Nes_on(Installed(Image(0, 1, 0, 0, ProgWarm))), WarmSteps>>)
    /\ host = "run"
    /\ \E a \in ChrAddrs, d \in ChrData, ctrl \in {0, 4} :
          obs = [ a |-> a, d |-> d, op |-> "on", addr |-> 0,
                  todo |-> RoundTrip(a, d, ctrl), reads |-> <<>> ]

ChrWrite ==
    /\ obs.todo # <<>>
    /\ Head(obs.todo).op = "write"
    /\ cpu' = [cpu EXCEPT !.bus = Invoke("Bus_write", <<@, Head(obs.todo).addr, Head(obs.todo).data>>)]
    /\ obs' = [obs EXCEPT !.op = "write", !.addr = Head(obs.todo).addr,
                          !.todo = Tail(@)]
    /\ UNCHANGED host

ChrRead ==
    /\ obs.todo # <<>>
    /\ Head(obs.todo).op = "read"
    /\ LET Read(r) ==
               /\ cpu' = [cpu EXCEPT !.bus = r.st]
               /\ obs' = [obs EXCEPT !.op = "read", !.addr = Head(obs.todo).addr,
                                     !.todo = Tail(@), !.reads = Append(@, r.val)]
       IN  Read(Invoke("Bus_read", <<cpu.bus, Head(obs.todo).addr>>))
    /\ UNCHANGED host

NextChr == ChrWrite \/ ChrRead

SpecChr == InitChr /\ [][NextChr]_vars

\* v advanced by 1 or by 32, as bit 2 of ctrl says
Advanced(p, q) ==
    q.v = (p.v + (IF Bit(p.ctrl, 2) = 1 THEN 32 ELSE 1)) % 32768

\* C25: on a mapper-0 cartridge without CHR-ROM and CHR-RAM, after v = a,
\* a write of d to $2007, v = a and two reads of $2007, the second read
\* returns d, for a in $0000-$3EFF; every access of $2007 advances v by 1
\* or by 32, as bit 2 of ctrl says.
C25_RoundTrip ==
    [][ /\ (obs'.addr = 8199 /\ obs'.op \in {"read", "write"})
            => Advanced(cpu.bus.ppu, cpu'.bus.ppu)
        /\ Len(obs'.reads) = 2 => obs'.reads[2] = obs.d ]_vars

\* the same for the addresses a of the nametables and their mirror, when
\* the second read is not made at a palette address
C25_RoundTripVram ==
    [][ /\ (obs'.addr = 8199 /\ obs'.op \in {"read", "write"})
            => Advanced(cpu.bus.ppu, cpu'.bus.ppu)
        /\ (Len(obs'.reads) = 2 /\ obs.a >= 8192 /\ cpu.bus.ppu.v % 16384 < 16128)
            => obs'.reads[2] = obs.d ]_vars

\* the byte written at $1FFF is not read back: the CHR-RAM still holds 0
C25_Dropped ==
    /\ obs.a = 8191 /\ obs.d = 173
    /\ Len(obs.reads) = 2 /\ obs.reads[2] = 0
    /\ Memory_get(cpu.bus.ppu.rom.mapper.chr_ram, 8191) = 0
    /\ Memory_capacity(cpu.bus.ppu.rom.mapper.chr_ram) = 8192

----------------------------------------------------------------------------
(* Nametable mirroring                                                     *)

\* bound of the number of accesses
MaxNtOps == 2

\* byte 6 of the header: horizontal, vertical, four-screen (bit 3), and
\* four-screen with bit 0
MirrorFlags == {0, 1, 8, 9}

\* the first and last byte of each nametable, and of the mirror $3000-$3EFF
NtAddrs == {8192, 9215, 9216, 10239, 10240, 11263, 11264, 12287, 12288, 14336, 16127}
NtData  == {7, 9}

InitMirror ==
    /\ \E flags \in MirrorFlags :
          cpu = Nes_on(Installed(Image(0, 1, 0, flags, ProgIdle)))
    /\ host = "run"
    /\ obs = [op |-> "on", addr |-> 0, data |-> 0, val |-> 0, n |-> 0]

\* Ppu::write, as write_data calls it
NtWrite ==
    /\ obs.n < MaxNtOps
    /\ \E addr \in NtAddrs, data \in NtData :
          /\ cpu' = [cpu EXCEPT !.bus.ppu = Ppu_write(@, addr, data)]
          /\ obs' = [op |-> "write", addr |-> addr, data |-> data, val |-> 0,
                     n |-> obs.n + 1]
    /\ UNCHANGED host

\* Ppu::read, as read_data calls it
NtRead ==
    /\ obs.n < MaxNtOps
    /\ \E addr \in NtAddrs :
          LET Read(r) ==
                  /\ cpu' = [cpu EXCEPT !.bus.ppu = r.st]
                  /\ obs' = [op |-> "read", addr |-> addr, data |-> 0, val |-> r.val,
                             n |-> obs.n + 1]
          IN  Read(Invoke("Ppu_read", <<cpu.bus.ppu, addr>>))
    /\ UNCHANGED host

NextMirror == NtWrite \/ NtRead

SpecMirror == InitMirror /\ [][NextMirror]_vars

\* the nametable that a PPU address in $2000-$3EFF names
NametableOf(addr) == ((IF addr >= 12288 THEN addr - 4096 ELSE addr) - 8192) \div 1024

\* the page of the VRAM that the nametable nt is kept in
PageOf(mirroring, nt) ==
    CASE mirroring = "Horizontal"   -> nt \div 2
      [] mirroring = "Vertical"     -> nt % 2
      [] mirroring = "SingleScreen" -> 0
      [] mirroring = "FourScreen"   -> nt % 2

\* C26: for every PPU address in $2000-$3EFF the mapped VRAM index is below
\* $800, in the page that the mirroring mode gives to its nametable, the
\* four-screen mode wrapping into the 2 KiB.
C26_MirrorInRange ==
    \A addr \in 8192..16127 :
        LET index == Ppu_map_vram_addr(cpu.bus.ppu, addr)
        IN  /\ index < 2048
            /\ index \div 1024 = PageOf(cpu.bus.ppu.rom.header.mirroring, NametableOf(addr))
            /\ index % 1024 = addr % 1024

\* the same for the horizontal and vertical modes
C26_TwoPages ==
    cpu.bus.ppu.rom.header.mirroring \in {"Horizontal", "Vertical"} =>
        \A addr \in 8192..16127 :
            LET index == Ppu_map_vram_addr(cpu.bus.ppu, addr)
            IN  /\ index < 2048
                /\ index \div 1024
                     = PageOf(cpu.bus.ppu.rom.header.mirroring, NametableOf(addr))
                /\ index % 1024 = addr % 1024

\* on a four-screen cartridge an access of nametable 2 went past the end
\* of the 2 KiB VRAM
C26_OutOfRange ==
    /\ cpu.bus.ppu.rom.header.mirroring = "FourScreen"
    /\ obs.op \in {"read", "write"} /\ obs.addr = 10240
    /\ Memory_capacity(cpu.bus.ppu.vram) = 2048
    /\ cpu.bus.ppu.vram.fault

----------------------------------------------------------------------------
(* The raster position                                                     *)

\* number of PPU ticks made in a behaviour
MaxRasterTicks == 14

\* mask bytes: rendering off, background alone, sprites alone, both
RasterMasks == {0, 8, 16, 24}

\* The machines of InitPpu: the PPU is at scanline 241 dot 1, at dots 255,
\* 300 and 327 of the pre-render scanline of the first frame, whose
\* odd_frame flag is set, and at dot 255 of scanline 7.
InitRaster ==
    /\ cpu \in Invoke("RunEach", <<Invoke("PowerOn", <<ProgRender>>),
                        <<StepsToVblank, StepsToCopyH, StepsToCopyV,
                          StepsToFetch, StepsToVisible>>>>)
    /\ host = "run"
    /\ obs = [op |-> "on", ticked |-> 0, masked |-> FALSE]

RasterTick ==
    /\ obs.ticked < MaxRasterTicks
    /\ cpu' = [cpu EXCEPT !.bus.ppu = Invoke("Ppu_step", <<@>>)]
    /\ obs' = [obs EXCEPT !.op = "tick", !.ticked = @ + 1]
    /\ UNCHANGED host

\* one write of $2001
RasterMask ==
    /\ ~obs.masked
    /\ \E data \in RasterMasks :
          cpu' = [cpu EXCEPT !.bus = Invoke("Bus_write", <<@, 8193, data>>)]
    /\ obs' = [obs EXCEPT !.op = "write", !.masked = TRUE]
    /\ UNCHANGED host

NextRaster == RasterTick \/ RasterMask

SpecRaster == InitRaster /\ [][NextRaster]_vars

\* the position q follows the position p in raster order
RasterNext(p, q) ==
    IF p.cycle = 340
    THEN q.cycle = 0 /\ q.scanline = (p.scanline + 1) % 262
    ELSE q.cycle = p.cycle + 1 /\ q.scanline = p.scanline

\* C27: the position stays within scanlines 0..261 and dots 0..340 and a
\* tick advances it in raster order, but for the tick made at scanline 261
\* dot 339 of an odd frame with bit 3 of mask set, which goes to scanline 0
\* dot 0; with bit 3 of mask clear no dot is skipped.
C27_RasterOrder ==
    [][ obs'.op = "tick"
        => LET p == cpu.bus.ppu
               q == cpu'.bus.ppu
           IN  /\ q.scanline \in 0..261 /\ q.cycle \in 0..340
               /\ IF p.scanline = 261 /\ p.cycle = 339 /\ p.odd_frame
                     /\ Bit(p.mask, 3) = 1
                  THEN q.scanline = 0 /\ q.cycle = 0
                  ELSE RasterNext(p, q) ]_vars

\* the same with the skip made when bit 3 or bit 4 of mask is set
C27_RasterOrderRender ==
    [][ obs'.op = "tick"
        => LET p == cpu.bus.ppu
               q == cpu'.bus.ppu
           IN  /\ q.scanline \in 0..261 /\ q.cycle \in 0..340
               /\ IF p.scanline = 261 /\ p.cycle = 339 /\ p.odd_frame
                     /\ BitAnd(p.mask, 24) # 0
                  THEN q.scanline = 0 /\ q.cycle = 0
                  ELSE RasterNext(p, q) ]_vars

\* a frame starts with the background off and the sprites on, and the
\* 14 ticks made came from dot 327 of the pre-render scanline: dot 340
\* was skipped
C27_SkippedWithoutBackground ==
    /\ cpu.bus.ppu.scanline = 0 /\ cpu.bus.ppu.cycle = 1
    /\ obs.op = "tick" /\ obs.ticked = 14
    /\ cpu.bus.ppu.mask = 16

\* dot 340 of the pre-render scanline is reached with rendering off
C27_NotSkipped ==
    /\ cpu.bus.ppu.scanline = 261 /\ cpu.bus.ppu.cycle = 340
    /\ cpu.bus.ppu.odd_frame /\ cpu.bus.ppu.mask = 0

\* the PPU without its position, odd_frame, the two latches and bit 7 of
\* status
Rendered(p) ==
    [p EXCEPT !.scanline = 0, !.cycle = 0, !.odd_frame = FALSE,
              !.trigger_nmi = FALSE, !.frame_ready = FALSE,
              !.status = @ % 128]

\* C35: a tick made while bits 3 and 4 of mask are clear changes nothing
\* but the position, odd_frame, bit 7 of status, trigger_nmi and
\* frame_ready: v, t, x, w, the background latches and shifters, the
\* secondary OAM, the sprite cache, bits 5 and 6 of status and the frame
\* buffer are as they were.
C35_IdleTick ==
    [][ (obs'.op = "tick" /\ BitAnd(cpu.bus.ppu.mask, 24) = 0)
        => Rendered(cpu'.bus.ppu) = Rendered(cpu.bus.ppu) ]_vars

\* a tick was made at dot 257 of the pre-render scanline with rendering
\* off: the horizontal bits of v are not those of t
C35_Witness ==
    /\ obs.op = "tick" /\ BitAnd(cpu.bus.ppu.mask, 24) = 0
    /\ cpu.bus.ppu.scanline = 261 /\ cpu.bus.ppu.cycle = 258
    /\ BitAnd(cpu.bus.ppu.v, 1055) # BitAnd(cpu.bus.ppu.t, 1055)

----------------------------------------------------------------------------
(* Sprites and the left column on the first scanlines of a frame           *)

\* Rom::new of an iNES 1.0 image with mapper 0, one 16 KiB PRG bank and one
\* 8 KiB CHR bank (bytes 4..7 of the header = 1, 1, 0, 0).
NromChrRom(prg, chr) ==
    [ header |-> [mirroring |-> "Horizontal", mapper_number |-> 0],
      mapper |-> Mapper0_new(16384, 8192, 0, prg, chr) ]

\* CHR-ROM: tiles 0 and 1.  Plane 0 of every row is $FF, plane 1 of row r
\* of tile t is 8 * t + r + 1: no pixel is transparent and every row
\* differs from the others.
Tiles ==
    [a \in 0..31 |-> IF (a \div 8) % 2 = 0 THEN 255 ELSE 8 * (a \div 16) + (a % 8) + 1]

\* number of PPU ticks made in a behaviour, and the dot of the pre-render
\* scanline that the behaviours start at
MaxSpriteTicks == 610
PreRenderDot == 330

\* Sprite: <<y, tile, attr, x>>; the sprites that a configuration does not
\* name are hidden at y = 240
Hidden == <<240, 0, 0, 0>>

Row(is, y, attr) == [i \in is |-> <<y, 0, attr, 8 * (i % 16)>>]

\* mask $14: sprites on with their left column, background off; $10: the
\* same with the left column of the sprites clipped; $08: background on
\* with its left column clipped; $1E: both on, nothing clipped; $18: both
\* on, both clipped.  Tile 2 is transparent.
\* ctrl $20: sprites of 16 rows.
SpriteConfigs ==
    { [mask |-> 20, ctrl |-> 0,  sprites |-> (0 :> <<0, 0, 0, 4>>)],
      [mask |-> 20, ctrl |-> 0,  sprites |-> (2 :> <<1, 0, 0, 4>>)],
      [mask |-> 20, ctrl |-> 0,  sprites |-> Row(0..7, 0, 0)],
      [mask |-> 20, ctrl |-> 0,  sprites |-> Row(1..9, 0, 0)],
      [mask |-> 20, ctrl |-> 0,  sprites |-> Row(0..8, 0, 0)],
      [mask |-> 20, ctrl |-> 32, sprites |-> (0 :> <<0, 0, 128, 4>>)],
      [mask |-> 16, ctrl |-> 0,  sprites |-> (0 :> <<0, 0, 0, 0>>)],
      [mask |-> 8,  ctrl |-> 0,  sprites |-> <<>>],
      [mask |-> 30, ctrl |-> 0,  sprites |-> (0 :> <<0, 0, 0, 0>>)],
      [mask |-> 24, ctrl |-> 0,  sprites |-> (0 :> <<0, 0, 0, 0>>)],
      [mask |-> 30, ctrl |-> 0,  sprites |-> (1 :> <<0, 0, 0, 0>>)],
      [mask |-> 30, ctrl |-> 0,  sprites |-> (0 :> <<0, 0, 0, 255>>)],
      [mask |-> 30, ctrl |-> 0,  sprites |-> (0 :> <<0, 0, 0, 4>>) @@ (1 :> <<0, 0, 0, 0>>)],
      [mask |-> 30, ctrl |-> 0,  sprites |-> (0 :> <<0, 2, 0, 0>>) @@ (1 :> <<0, 0, 0, 0>>)] }

\* the 256 bytes of the OAM of a configuration
OamBytes(cfg) ==
    [k \in 1..256 |->
        LET i == (k - 1) \div 4
        IN  IF i \in DOMAIN cfg.sprites THEN cfg.sprites[i][((k - 1) % 4) + 1]
            ELSE Hidden[((k - 1) % 4) + 1]]

\* palette entries $3F00-$3F13: the backdrop is $20, entry i is i
PaletteBytes == [k \in 1..20 |-> IF (k - 1) % 4 = 0 THEN 32 ELSE k - 1]

\* The register writes that set a configuration up: OAM through $2003 and
\* $2004, the palette through $2006 and $2007, the scroll, ctrl and mask.
Setup(cfg) ==
    <<  <<8195, 0>> >>
    \o [k \in 1..256 |-> <<8196, OamBytes(cfg)[k]>>]
    \o << <<8198, 63>>, <<8198, 0>> >>
    \o [k \in 1..20 |-> <<8199, PaletteBytes[k]>>]
    \o << <<8198, 0>>, <<8198, 0>>, <<8192, cfg.ctrl>>, <<8193, cfg.mask>> >>

\* the writes ws[i] .. ws[j], in order
RECURSIVE BusWriteRun(_, _, _, _)
BusWriteRun(b, ws, i, j) ==
    IF i > j THEN b
    ELSE LET Rest(d) == IF d.cycles >= 0 THEN BusWriteRun(d, ws, i + 1, j) ELSE d
         IN  Rest(Invoke("Bus_write", <<b, ws[i][1], ws[i][2]>>))

\* the writes of ws from ws[i] on, made in runs of RunBlockLen writes
RECURSIVE BusWritesFrom(_, _, _)
BusWritesFrom(b, ws, i) ==
    IF i > Len(ws) THEN b
    ELSE LET last == IF i + RunBlockLen - 1 < Len(ws)
                     THEN i + RunBlockLen - 1 ELSE Len(ws)
             Rest(d) == IF d.cycles >= 0 THEN BusWritesFrom(d, ws, last + 1) ELSE d
         IN  Rest(BusWriteRun(b, ws, i, last))

BusWrites(b, ws) == BusWritesFrom(b, ws, 1)

\* n calls of Ppu::step, made in runs of RunBlockLen calls
RECURSIVE PpuRun(_, _)
PpuRun(p, n) ==
    IF n <= RunBlockLen THEN PpuSteps(p, n)
    ELSE LET Rest(q) == IF q.cycle >= 0 THEN PpuRun(q, n - RunBlockLen) ELSE q
         IN  Rest(PpuSteps(p, RunBlockLen))

\* Ppu::step until the pre-render scanline begins, a scanline at a time
RECURSIVE PpuRows(_)
PpuRows(p) ==
    IF p.scanline = 261 THEN p
    ELSE LET Rest(q) == IF q.cycle >= 0 THEN PpuRows(q) ELSE q
         IN  Rest(PpuRun(p, 341 - p.cycle))

\* The machine of ProgRender at the start of the vertical blank, with the
\* registers written there, then at dot PreRenderDot of the pre-render
\* scanline.  `was` is the position before the last tick.
InitSprite ==
    /\ \E base \in {Invoke("Run", <<Nes_on(Nes_set_rom(Nes_new, NromChrRom(ProgRender, Tiles))),
                         StepsToVblank>>)} :
          \E cfg \in SpriteConfigs :
              LET Start(c) ==
                      [c EXCEPT !.bus.ppu = PpuRun(PpuRows(@), PreRenderDot)]
              IN  /\ cpu = Start([base EXCEPT !.bus = BusWrites(@, Setup(cfg))])
                  /\ obs = [cfg |-> cfg, op |-> "on", ticked |-> 0,
                            was |-> [scanline |-> 0, cycle |-> 0, status |-> 0]]
    /\ host = "run"

SpriteTick ==
    /\ obs.ticked < MaxSpriteTicks
    /\ cpu' = [cpu EXCEPT !.bus.ppu = Invoke("Ppu_step", <<@>>)]
    /\ obs' = [obs EXCEPT !.op = "tick", !.ticked = @ + 1,
                          !.was = [scanline |-> cpu.bus.ppu.scanline,
                                   cycle |-> cpu.bus.ppu.cycle,
                                   status |-> cpu.bus.ppu.status]]
    /\ UNCHANGED host

NextSprite == SpriteTick

SpecSprite == InitSprite /\ [][NextSprite]_vars

\* sprite i of the OAM covers the scanline L
InRange(p, i, L) ==
    LET y == Memory_get(p.oam, 4 * i)
    IN  y <= L /\ L < y + Ppu_sprite_height(p)

\* the sprites of the OAM that cover the scanline L
Covering(p, L) == {i \in 0..63 : InRange(p, i, L)}

\* C29: the sprite evaluation of a scanline, made at dot 65, sets bit 5 of
\* status if and only if nine or more of the 64 sprites of the OAM are in
\* range, whatever their indices; with eight or fewer it leaves the bit
\* as it was.
C29_Overflow ==
    [][ ( /\ obs'.op = "tick"
          /\ cpu.bus.ppu.cycle = 65 /\ cpu.bus.ppu.scanline < 240
          /\ Ppu_is_rendering_enabled(cpu.bus.ppu) )
        => IF Cardinality(Covering(cpu.bus.ppu, cpu.bus.ppu.scanline)) >= 9
           THEN Bit(cpu'.bus.ppu.status, 5) = 1
           ELSE Bit(cpu'.bus.ppu.status, 5) = Bit(cpu.bus.ppu.status, 5) ]_vars

\* what the evaluation does: the bit is set if and only if the sprites
\* 0..7 are all in range
C29_FirstEight ==
    [][ ( /\ obs'.op = "tick"
          /\ cpu.bus.ppu.cycle = 65 /\ cpu.bus.ppu.scanline < 240
          /\ Ppu_is_rendering_enabled(cpu.bus.ppu) )
        => IF 0..7 \subseteq Covering(cpu.bus.ppu, cpu.bus.ppu.scanline)
           THEN Bit(cpu'.bus.ppu.status, 5) = 1
           ELSE Bit(cpu'.bus.ppu.status, 5) = Bit(cpu.bus.ppu.status, 5) ]_vars

\* the bit was set by the evaluation of scanline 0 with exactly the eight
\* sprites 0..7 in range
C29_SetWithEight ==
    /\ obs.op = "tick" /\ obs.was.scanline = 0 /\ obs.was.cycle = 65
    /\ Covering(cpu.bus.ppu, 0) = 0..7
    /\ Bit(obs.was.status, 5) = 0 /\ Bit(cpu.bus.ppu.status, 5) = 1

\* the bit is clear after the evaluation of scanline 0 with the nine
\* sprites 1..9 in range
C29_ClearWithNine ==
    /\ obs.op = "tick" /\ obs.was.scanline = 0 /\ obs.was.cycle = 65
    /\ Covering(cpu.bus.ppu, 0) = 1..9
    /\ Bit(cpu.bus.ppu.status, 5) = 0

\* the sprites selected for the scanline L: the first eight, in OAM order,
\* of the sprites in range
SelectedFor(p, L) ==
    {i \in Covering(p, L) : Cardinality({m \in Covering(p, L) : m < i}) < 8}

\* the colour index (0..3) of sprite i at column x, taken from the row
\* `row0` of the sprite (counted from its top, before the vertical flip)
SpritePixel(p, i, row0, x) ==
    LET tile == Memory_get(p.oam, 4 * i + 1)
        attr == Memory_get(p.oam, 4 * i + 2)
        sx   == Memory_get(p.oam, 4 * i + 3)
        h    == Ppu_sprite_height(p)
        row  == IF Bit(attr, 7) = 1 THEN (h - 1) - row0 ELSE row0
        addr == IF h = 8
                THEN Bit(p.ctrl, 3) * 4096 + tile * 16 + row
                ELSE (tile % 2) * 4096 + ((tile \div 2) * 2 + (row \div 8)) * 16 + (row % 8)
        bit  == IF Bit(attr, 6) = 1 THEN x - sx ELSE 7 - (x - sx)
    IN  IF x < sx \/ x > sx + 7 THEN 0
        ELSE 2 * Bit(Invoke("Ppu_read", <<p, addr + 8>>).val, bit) + Bit(Invoke("Ppu_read", <<p, addr>>).val, bit)

\* the palette index of the sprite pixel at column x, when the sprites
\* drawn are those selected for the scanline S, with the rows S - y:
\* the first of them that is not transparent at x, or the backdrop
SpriteIndex(p, S, x) ==
    LET Px(i)   == SpritePixel(p, i, S - Memory_get(p.oam, 4 * i), x)
        opaque  == {i \in SelectedFor(p, S) : Px(i) # 0}
        first   == CHOOSE i \in opaque : \A m \in opaque : i <= m
    IN  IF opaque = {} THEN 0
        ELSE 16 + (Memory_get(p.oam, 4 * first + 2) % 4) * 4 + Px(first)

\* the colour of the palette entry idx, and the colour stored in the frame
\* buffer for the pixel x of the scanline L
ColourOf(p, idx) ==
    LET c == BitAnd(Memory_get(p.palette, idx), 63)
    IN  <<PALETTE[c * 3 + 1], PALETTE[c * 3 + 2], PALETTE[c * 3 + 3]>>

Plotted(p, L, x) ==
    LET idx == (L * 256 + x) * 3
    IN  <<Memory_get(p.frame_buffer, idx), Memory_get(p.frame_buffer, idx + 1),
          Memory_get(p.frame_buffer, idx + 2)>>

\* the last tick plotted a pixel of a scanline drawn with the sprites
\* alone, their left column included
SpritesAlonePlotted ==
    /\ obs.op = "tick"
    /\ obs.was.scanline < 240 /\ obs.was.cycle \in 1..256
    /\ BitAnd(cpu.bus.ppu.mask, 28) = 20

\* C28: with the sprites on, the sprite pixels composited on a visible
\* scanline L are those of the first eight sprites of the OAM with
\* y <= L < y + height, each drawn with its row L - y (flipped when bit 7
\* of its attributes is set); a sprite that is not in range for L gives
\* no pixel to L.
C28_SpritesOfLine ==
    SpritesAlonePlotted
    => Plotted(cpu.bus.ppu, obs.was.scanline, obs.was.cycle - 1)
         = ColourOf(cpu.bus.ppu,
                    SpriteIndex(cpu.bus.ppu, obs.was.scanline, obs.was.cycle - 1))

\* what the PPU draws in its first frame: nothing on scanline 0, and on a
\* scanline L >= 1 the sprites selected for L - 1 with their rows L - 1 - y
C28_SpritesOfLineBefore ==
    SpritesAlonePlotted
    => Plotted(cpu.bus.ppu, obs.was.scanline, obs.was.cycle - 1)
         = ColourOf(cpu.bus.ppu,
                    IF obs.was.scanline = 0 THEN 0
                    ELSE SpriteIndex(cpu.bus.ppu, obs.was.scanline - 1,
                                     obs.was.cycle - 1))

\* sprite 0 at y = 0, x = 4: the pixel x = 11 of scanline 0 is the backdrop
\* although row 0 of the sprite is opaque there
C28_MissingOnFirstLine ==
    /\ SpritesAlonePlotted
    /\ obs.was.scanline = 0 /\ obs.was.cycle = 12
    /\ InRange(cpu.bus.ppu, 0, 0) /\ Memory_get(cpu.bus.ppu.oam, 3) = 4
    /\ SpritePixel(cpu.bus.ppu, 0, 0, 11) = 3
    /\ Plotted(cpu.bus.ppu, 0, 11) = ColourOf(cpu.bus.ppu, 0)
    /\ ColourOf(cpu.bus.ppu, 0) # ColourOf(cpu.bus.ppu, 19)

\* the pixel x = 11 of scanline 1 has the colour of row 0 of the sprite
\* (index 3), not that of row 1 (index 1)
C28_RowOfLineBefore ==
    /\ SpritesAlonePlotted
    /\ obs.was.scanline = 1 /\ obs.was.cycle = 12
    /\ InRange(cpu.bus.ppu, 0, 1) /\ Memory_get(cpu.bus.ppu.oam, 3) = 4
    /\ SpritePixel(cpu.bus.ppu, 0, 0, 11) = 3
    /\ SpritePixel(cpu.bus.ppu, 0, 1, 11) = 1
    /\ Plotted(cpu.bus.ppu, 1, 11) = ColourOf(cpu.bus.ppu, 19)
    /\ ColourOf(cpu.bus.ppu, 17) # ColourOf(cpu.bus.ppu, 19)

\* C30: on a visible scanline, with bit 1 of mask clear the background
\* colour index composited at the pixels x = 0..7 is 0, and with bit 2 of
\* mask clear no sprite pixel is output at x = 0..7: a pixel x = 0..7 drawn
\* with the background alone, or with the sprites alone, has the colour of
\* the backdrop.
C30_LeftColumn ==
    (obs.op = "tick" /\ obs.was.scanline < 240 /\ obs.was.cycle \in 1..8)
    => /\ BitAnd(cpu.bus.ppu.mask, 26) = 8
          => Plotted(cpu.bus.ppu, obs.was.scanline, obs.was.cycle - 1)
               = ColourOf(cpu.bus.ppu, 0)
       /\ BitAnd(cpu.bus.ppu.mask, 28) = 16
          => Plotted(cpu.bus.ppu, obs.was.scanline, obs.was.cycle - 1)
               = ColourOf(cpu.bus.ppu, 0)

\* the same for the pixels x = 0..6
C30_LeftColumnOfSeven ==
    (obs.op = "tick" /\ obs.was.scanline < 240 /\ obs.was.cycle \in 1..7)
    => /\ BitAnd(cpu.bus.ppu.mask, 26) = 8
          => Plotted(cpu.bus.ppu, obs.was.scanline, obs.was.cycle - 1)
               = ColourOf(cpu.bus.ppu, 0)
       /\ BitAnd(cpu.bus.ppu.mask, 28) = 16
          => Plotted(cpu.bus.ppu, obs.was.scanline, obs.was.cycle - 1)
               = ColourOf(cpu.bus.ppu, 0)

\* the pixel x = 7 of scanline 0 has a background colour with the left
\* column of the background clipped and the sprites off
C30_BackgroundAtSeven ==
    /\ obs.op = "tick" /\ obs.was.scanline = 0 /\ obs.was.cycle = 8
    /\ cpu.bus.ppu.mask = 8
    /\ Plotted(cpu.bus.ppu, 0, 7) # ColourOf(cpu.bus.ppu, 0)
    /\ Plotted(cpu.bus.ppu, 0, 7) \in {ColourOf(cpu.bus.ppu, 1), ColourOf(cpu.bus.ppu, 3)}

\* the pixel x = 7 of scanline 1 has the colour of sprite 0, at x = 0, with
\* the left column of the sprites clipped and the background off
C30_SpriteAtSeven ==
    /\ obs.op = "tick" /\ obs.was.scanline = 1 /\ obs.was.cycle = 8
    /\ cpu.bus.ppu.mask = 16
    /\ Memory_get(cpu.bus.ppu.oam, 3) = 0
    /\ Plotted(cpu.bus.ppu, 1, 7) # ColourOf(cpu.bus.ppu, 0)
    /\ Plotted(cpu.bus.ppu, 1, 7) = ColourOf(cpu.bus.ppu, 19)

\* the first sprite, in OAM order, that is not transparent at column x when
\* the sprites drawn are those selected for the scanline S; -1 if none
SpriteWinner(p, S, x) ==
    LET Px(i)  == SpritePixel(p, i, S - Memory_get(p.oam, 4 * i), x)
        opaque == {i \in SelectedFor(p, S) : Px(i) # 0}
    IN  IF opaque = {} THEN -1
        ELSE CHOOSE i \in opaque : \A m \in opaque : i <= m

\* the background colour index of the pixel x about to be composited, with
\* the left column of `clip` pixels
BgIndex(p, x, clip) ==
    IF Bit(p.mask, 3) = 0 \/ (x < clip /\ Bit(p.mask, 1) = 0) THEN 0
    ELSE 2 * Bit(p.pt_shifter_hi, 15 - (p.x % 8)) + Bit(p.pt_shifter_lo, 15 - (p.x % 8))

\* the conditions of the sprite-0 hit at the pixel x of the scanline of p,
\* whose sprites are those selected on the scanline before
HitAt(p, x, clip) ==
    /\ Bit(p.mask, 4) = 1
    /\ x >= clip \/ Bit(p.mask, 2) = 1
    /\ p.scanline >= 1 /\ SpriteWinner(p, p.scanline - 1, x) = 0
    /\ BgIndex(p, x, clip) # 0
    /\ x # 255

\* a tick that composites a pixel of a visible scanline with bit 6 of
\* status still clear
Compositing ==
    /\ obs'.op = "tick"
    /\ cpu.bus.ppu.scanline < 240 /\ cpu.bus.ppu.cycle \in 1..256
    /\ Ppu_is_rendering_enabled(cpu.bus.ppu)
    /\ Bit(cpu.bus.ppu.status, 6) = 0

\* C31: compositing the pixel x of a visible scanline sets bit 6 of status
\* exactly when the sprites are on, the first sprite pixel at x that is not
\* transparent (none in the clipped left column x = 0..7) is of sprite 0,
\* the background colour index at x (0 in the clipped left column) is not
\* zero and x is not 255; otherwise the bit stays clear.
C31_ZeroHit ==
    [][ Compositing
        => (Bit(cpu'.bus.ppu.status, 6) = 1
              <=> HitAt(cpu.bus.ppu, cpu.bus.ppu.cycle - 1, 8)) ]_vars

\* what the compositor does: the same with a left column of the seven
\* pixels x = 0..6
C31_ZeroHitOfSeven ==
    [][ Compositing
        => (Bit(cpu'.bus.ppu.status, 6) = 1
              <=> HitAt(cpu.bus.ppu, cpu.bus.ppu.cycle - 1, 7)) ]_vars

\* the bit was set at the pixel x = 7 of scanline 1 with both left columns
\* clipped
C31_HitAtSeven ==
    /\ obs.op = "tick" /\ obs.was.scanline = 1 /\ obs.was.cycle = 8
    /\ cpu.bus.ppu.mask = 24
    /\ Bit(obs.was.status, 6) = 0 /\ Bit(cpu.bus.ppu.status, 6) = 1

\* the bit was set at the pixel x = 4 where sprite 0 lies over sprite 1
C31_HitOverSprite ==
    /\ obs.op = "tick" /\ obs.was.scanline = 1 /\ obs.was.cycle = 5
    /\ cpu.bus.ppu.mask = 30
    /\ Covering(cpu.bus.ppu, 0) = {0, 1}
    /\ Bit(obs.was.status, 6) = 0 /\ Bit(cpu.bus.ppu.status, 6) = 1

\* the bit is clear after the pixel x = 255 of scanline 1, which sprite 0
\* and the background both cover
C31_NoHitAtLastPixel ==
    /\ obs.op = "tick" /\ obs.was.scanline = 1 /\ obs.was.cycle = 256
    /\ cpu.bus.ppu.mask = 30
    /\ Memory_get(cpu.bus.ppu.oam, 3) = 255 /\ InRange(cpu.bus.ppu, 0, 0)
    /\ Bit(cpu.bus.ppu.status, 6) = 0

----------------------------------------------------------------------------
(* Single instructions after loads of the registers                        *)

\* bound of the number of steps
MaxOpSteps == 4

\* values of the registers and of the operand bytes
OpBytes == {0, 1, 127, 128, 255}

\* the opcodes of the table that are modelled, without the branches, the
\* jumps and BRK, RTI
PlainOpcodes ==
    {op \in DOMAIN OPCODE_TABLE :
        OPCODE_TABLE[op].function \notin {"bpl", "jmp", "rti", "brk"}}

\* $8000  LDA #a ; LDX #x ; ANE #m / LXA #m ; NOP
ProgUnstable(a, x, opcode, m) ==
    Place(0, <<169, a, 162, x, opcode, m, 234, 234>>)
    @@ Vectors(32768, 32768, 32768)

\* $8000  LDX #x ; LDY #y ; opcode $10 $02 ; NOP     the operand bytes are
\* the zero-page address $10 or the address $0210, both in RAM
ProgMode(opcode, x, y) ==
    Place(0, <<162, x, 160, y, opcode, 16, 2, 234, 234>>)
    @@ Vectors(32768, 32768, 32768)

OpPrograms ==
    { ProgUnstable(a, x, opcode, m) : a \in OpBytes, x \in {0, 255},
                                      opcode \in {139, 171}, m \in OpBytes }
    \cup { ProgMode(opcode, x, y) : opcode \in PlainOpcodes, x \in {1, 255},
                                    y \in {2} }

\* `before` is the machine before the last step, `opcode` the opcode that
\* the step executed, `nmis` the number of NMIs that it serviced
InitOps ==
    /\ \E prog \in OpPrograms : cpu = Invoke("PowerOn", <<prog>>)
    /\ host = "run"
    /\ obs = [op |-> "on", opcode |-> 0, n |-> 0, nmis |-> 0, before |-> Cpu_new]

OpStep ==
    /\ obs.n < MaxOpSteps
    /\ Invoke("Modelled", <<cpu>>)
    /\ LET Step(tr) ==
               /\ cpu' = tr.st
               /\ obs' = [op |-> "step", opcode |-> tr.opcode, n |-> obs.n + 1,
                          nmis |-> tr.log.nmis, before |-> cpu]
       IN  Step(Invoke("Cpu_step_trace", <<cpu>>))
    /\ UNCHANGED host

NextOps == OpStep

SpecOps == InitOps /\ [][NextOps]_vars

\* C32: a step that executes ANE ($8B) or LXA ($AB) ends with A = 0, Z set
\* and N clear, whatever the operand byte and the registers before.
C32_UnstableClearA ==
    (obs.op = "step" /\ obs.opcode \in {139, 171})
    => cpu.a = 0 /\ Bit(cpu.p, 1) = 1 /\ Bit(cpu.p, 7) = 0

\* the same for ANE alone
C32_AneClearsA ==
    (obs.op = "step" /\ obs.opcode = 139)
    => cpu.a = 0 /\ Bit(cpu.p, 1) = 1 /\ Bit(cpu.p, 7) = 0

\* what LXA does: A and X are the operand byte, Z and N are those of it
C32_LxaLoads ==
    (obs.op = "step" /\ obs.opcode = 171)
    => /\ cpu.a = Operand(1) /\ cpu.x = Operand(1)
       /\ Bit(cpu.p, 1) = (IF Operand(1) = 0 THEN 1 ELSE 0)
       /\ Bit(cpu.p, 7) = Bit(Operand(1), 7)

\* a step executed LXA #$80 with A = 1 and ended with A = $80, N set
C32_LxaKeepsOperand ==
    /\ obs.op = "step" /\ obs.opcode = 171
    /\ obs.before.a = 1 /\ Operand(1) = 128
    /\ cpu.a = 128 /\ Bit(cpu.p, 1) = 0 /\ Bit(cpu.p, 7) = 1

\* the number of operand bytes of an addressing mode
OperandSize(mode) ==
    CASE mode \in {"Implied", "Accumulator"} -> 0
      [] mode \in {"Immediate", "ZeroPage", "ZeroPageX", "ZeroPageY",
                   "IndirectX", "IndirectY"} -> 1
      [] mode \in {"Absolute", "AbsoluteX", "AbsoluteY"} -> 2

\* C40: a step that services no NMI and executes an opcode other than a
\* branch, JMP, JSR, RTS, RTI or BRK advances PC by 1 plus the operand size
\* of the addressing mode that the table gives to the opcode.
C40_PcAdvance ==
    (obs.op = "step" /\ obs.nmis = 0 /\ obs.opcode \in PlainOpcodes)
    => cpu.pc = Wrap16(obs.before.pc + 1 + OperandSize(OPCODE_TABLE[obs.opcode].mode))

\* the same for the opcodes other than ANE ($8B)
C40_PcAdvanceButAne ==
    (obs.op = "step" /\ obs.nmis = 0 /\ obs.opcode \in PlainOpcodes \ {139})
    => cpu.pc = Wrap16(obs.before.pc + 1 + OperandSize(OPCODE_TABLE[obs.opcode].mode))

\* a step executed ANE, of mode Immediate, and advanced PC by 1: the next
\* opcode fetched is the operand byte
C40_AneOperandExecuted ==
    /\ obs.op = "step" /\ obs.opcode = 139
    /\ OPCODE_TABLE[139].mode = "Immediate"
    /\ cpu.pc = Wrap16(obs.before.pc + 1)

\* every addressing mode of the claim was executed
C40_ModesExecuted ==
    /\ obs.op = "step" /\ obs.nmis = 0
    /\ OPCODE_TABLE[obs.opcode].mode = "IndirectY"
    /\ {OPCODE_TABLE[op].mode : op \in PlainOpcodes}
         = {"Implied", "Accumulator", "Immediate", "ZeroPage", "ZeroPageX",
            "ZeroPageY", "IndirectX", "IndirectY", "Absolute", "AbsoluteX",
            "AbsoluteY"}

----------------------------------------------------------------------------
(* PRG-ROM banks of an MMC1 cartridge                                      *)

\* bound of the number of register loads and reads
MaxBankOps == 3

\* numbers of 16 KiB PRG banks: 16, 32, 48, 128 and 256 KiB
BankCounts == {1, 2, 3, 8, 16}

\* the byte of the PRG-ROM at the offsets 0, $3FFC, $3FFD and $3FFF of a
\* bank: no two banks have the same
BankMark(bank, a) ==
    CASE a = 0     -> bank + 1
      [] a = 16380 -> bank + 33
      [] a = 16381 -> bank + 129
      [] a = 16383 -> bank + 65

\* An iNES 1.0 image for mapper 1 with the marked PRG banks and no CHR-ROM
BankImage(prg_banks) ==
    [ len   |-> HEADER_SIZE + prg_banks * 16384,
      bytes |-> Place(0, <<78, 69, 83, 26, prg_banks, 0, 16>>)
                @@ [k \in {HEADER_SIZE + bank * 16384 + a :
                             bank \in 0..(prg_banks - 1),
                             a \in {0, 16380, 16381, 16383}}
                      |-> BankMark((k - HEADER_SIZE) \div 16384,
                                   (k - HEADER_SIZE) % 16384)] ]

\* values loaded into the control register (bits 2-3 = 3, 2, 3 with the
\* other bits set) and into the PRG bank register
ControlValues == {12, 8, 31}
PrgBankValues == {0, 1, 2, 4, 15}

BankAddrs == {32768, 49151, 49152, 65535}

\* the five writes, bit 0 first, that load `value` into the register
\* selected by addr
SerialWrites(addr, value) == [k \in 1..5 |-> <<addr, Bit(value, k - 1)>>]

\* `before` is the mapper before the last operation
InitBank ==
    /\ \E banks \in BankCounts : cpu = Installed(BankImage(banks))
    /\ host = "run"
    /\ obs = [op |-> "new", addr |-> 0, val |-> 0, n |-> 0,
              before |-> Mapper1_new(0, 0, NoBytes, NoBytes)]

BankOn ==
    /\ obs.op = "new"
    /\ cpu' = Nes_on(cpu)
    /\ obs' = [obs EXCEPT !.op = "on", !.before = cpu.bus.ppu.rom.mapper]
    /\ UNCHANGED host

BankLoad ==
    /\ obs.op # "new" /\ ~Aborted(cpu) /\ obs.n < MaxBankOps
    /\ \E w \in ({32768} \X ControlValues) \cup ({57344} \X PrgBankValues) :
          /\ cpu' = [cpu EXCEPT !.bus = BusWrites(@, SerialWrites(w[1], w[2]))]
          /\ obs' = [obs EXCEPT !.op = "load", !.addr = w[1], !.val = w[2],
                                !.n = @ + 1,
                                !.before = cpu.bus.ppu.rom.mapper]
    /\ UNCHANGED host

BankRead ==
    /\ obs.op # "new" /\ ~Aborted(cpu) /\ obs.n < MaxBankOps
    /\ \E addr \in BankAddrs :
          LET Read(r) ==
                  /\ cpu' = [cpu EXCEPT !.bus = r.st]
                  /\ obs' = [obs EXCEPT !.op = "read", !.addr = addr,
                                        !.val = r.val, !.n = @ + 1,
                                        !.before = cpu.bus.ppu.rom.mapper]
          IN  Read(Invoke("Bus_read", <<cpu.bus, addr>>))
    /\ UNCHANGED host

NextBank == BankOn \/ BankLoad \/ BankRead

SpecBank == InitBank /\ [][NextBank]_vars

\* the offset in the PRG-ROM of the CPU address addr, for the registers
\* of mp, in the PRG modes 3 and 2
PrgOffset(mp, addr) ==
    LET size == Memory_capacity(mp.prg_rom)
        mode == (mp.control \div 4) % 4
    IN  IF mode = 3
        THEN IF addr >= 49152 THEN (size - 16384) + (addr - 49152)
             ELSE (mp.prg_bank * 16384 + (addr - 32768)) % size
        ELSE IF addr < 49152 THEN addr - 32768
             ELSE (mp.prg_bank * 16384 + (addr - 49152)) % size

PrgByte(mp, addr) == Memory_get(mp.prg_rom, PrgOffset(mp, addr))

\* the reads of the last operation returned the bytes of the PRG-ROM that
\* the registers select; Nes::on reads the reset vector at $FFFC, $FFFD
BankedReads ==
    /\ ~Aborted(cpu)
    /\ obs.op = "read" => obs.val = PrgByte(obs.before, obs.addr)
    /\ obs.op = "on" => cpu.pc = PrgByte(obs.before, 65533) * 256
                                   + PrgByte(obs.before, 65532)

\* C33: with bits 2-3 of control equal to 3, for every PRG-ROM size that
\* is a multiple of 16 KiB, a CPU read of $C000-$FFFF returns the byte at
\* the offset (size - $4000) + (addr - $C000) and a read of $8000-$BFFF the
\* byte at (prg_bank * $4000 + (addr - $8000)) mod size; with bits 2-3
\* equal to 2 the first bank is at $8000 and prg_bank selects the bank at
\* $C000.
C33_PrgBanks ==
    (obs.op \in {"on", "read"} /\ (obs.before.control \div 4) % 4 \in {2, 3})
    => BankedReads

\* the same for the sizes 16 KiB and 32 KiB
C33_PrgBanksSmall ==
    (/\ obs.op \in {"on", "read"} /\ (obs.before.control \div 4) % 4 \in {2, 3}
     /\ Memory_capacity(obs.before.prg_rom) \in {16384, 32768})
    => BankedReads

\* Nes::on aborted on a cartridge of 128 KiB
C33_AbortOfLarge ==
    /\ obs.op = "on"
    /\ Memory_capacity(obs.before.prg_rom) = 131072
    /\ cpu.bus.ppu.rom.mapper.panicked

\* a read at $8000 of a cartridge of 48 KiB with prg_bank = 4, in mode 3,
\* returned the byte of bank 0 and not that of bank 1
C33_WrongBank ==
    /\ obs.op = "read" /\ obs.addr = 32768 /\ ~Aborted(cpu)
    /\ Memory_capacity(obs.before.prg_rom) = 49152
    /\ (obs.before.control \div 4) % 4 = 3 /\ obs.before.prg_bank = 4
    /\ PrgByte(obs.before, 32768) = BankMark(1, 0)
    /\ obs.val = BankMark(0, 0)

----------------------------------------------------------------------------
(* ADC and SBC                                                             *)

\* bound of the number of steps
MaxAluSteps == 4

\* values of A and of the operand byte
AluBytes == {0, 1, 2, 63, 64, 127, 128, 129, 191, 192, 254, 255}

\* $8000  CLC / SEC ; CLD / SED ; LDA #a ; ADC #m / SBC #m ; NOP
ProgAlu(carry, decimal, a, opcode, m) ==
    Place(0, <<carry, decimal, 169, a, opcode, m, 234, 234>>)
    @@ Vectors(32768, 32768, 32768)

AluPrograms ==
    { ProgAlu(carry, decimal, a, opcode, m) :
          carry \in {24, 56}, decimal \in {216, 248}, a \in AluBytes,
          opcode \in {105, 233}, m \in AluBytes }

InitAlu ==
    /\ \E prog \in AluPrograms : cpu = Invoke("PowerOn", <<prog>>)
    /\ host = "run"
    /\ obs = [op |-> "on", opcode |-> 0, n |-> 0, nmis |-> 0, before |-> Cpu_new]

AluStep ==
    /\ obs.n < MaxAluSteps
    /\ Invoke("Modelled", <<cpu>>)
    /\ LET Step(tr) ==
               /\ cpu' = tr.st
               /\ obs' = [op |-> "step", opcode |-> tr.opcode, n |-> obs.n + 1,
                          nmis |-> tr.log.nmis, before |-> cpu]
       IN  Step(Invoke("Cpu_step_trace", <<cpu>>))
    /\ UNCHANGED host

NextAlu == AluStep

SpecAlu == InitAlu /\ [][NextAlu]_vars

\* binary addition with carry: the result, the carry out of bit 7 and the
\* overflow by the sign-change rule
AddWithCarry(a, m, carry) ==
    LET sum == a + m + carry
        r   == sum % 256
    IN  [a |-> r,
         c |-> IF sum > 255 THEN 1 ELSE 0,
         v |-> IF BitAnd(BitAnd(BitXor(a, r), BitXor(m, r)), 128) # 0 THEN 1 ELSE 0,
         z |-> IF r = 0 THEN 1 ELSE 0,
         n |-> r \div 128]

\* A and the flags C, V, Z, N of a machine
AluResult(c) ==
    [a |-> c.a, c |-> Bit(c.p, 0), v |-> Bit(c.p, 6), z |-> Bit(c.p, 1),
     n |-> Bit(c.p, 7)]

\* C34: ADC leaves in A, C, V, Z, N the binary sum of A, the operand and
\* the carry, and SBC leaves what ADC leaves for the complement of the
\* operand with the same carry; after SBC, C is set exactly when
\* A - operand - (1 - carry) is not negative; the Decimal flag is left as
\* it was and has no effect on the results.
C34_SbcIsAdcOfComplement ==
    /\ (obs.op = "step" /\ obs.opcode = 105)
       => /\ AluResult(cpu)
               = AddWithCarry(obs.before.a, Operand(1), Bit(obs.before.p, 0))
          /\ Bit(cpu.p, 3) = Bit(obs.before.p, 3)
    /\ (obs.op = "step" /\ obs.opcode = 233)
       => /\ AluResult(cpu)
               = AddWithCarry(obs.before.a, 255 - Operand(1), Bit(obs.before.p, 0))
          /\ Bit(cpu.p, 0) = 1
               <=> obs.before.a - Operand(1) - (1 - Bit(obs.before.p, 0)) >= 0
          /\ Bit(cpu.p, 3) = Bit(obs.before.p, 3)

\* a step executed SBC #$01 with A = $80, the carry and the Decimal flag
\* set: A = $7F, no borrow, overflow
C34_Witness ==
    /\ obs.op = "step" /\ obs.opcode = 233
    /\ obs.before.a = 128 /\ Operand(1) = 1
    /\ Bit(obs.before.p, 0) = 1 /\ Bit(obs.before.p, 3) = 1
    /\ cpu.a = 127 /\ Bit(cpu.p, 0) = 1 /\ Bit(cpu.p, 6) = 1

----------------------------------------------------------------------------
(* Bits 4 and 5 of P                                                       *)

\* bound of the number of steps
MaxStackSteps == 10

\* bytes pushed for P
StackBytes == {0, 16, 32, 48, 207, 255}

\* $8000  LDX #$FF ; TXS ; LDA #$80 ; PHA ; LDA #$20 ; PHA ; LDA #p ; PHA
\* $800C  RTI                            returns to $8020 with P pulled from p
\* $8020  NOP ; NOP
ProgRti(p) ==
    Place(0, <<162, 255, 154, 169, 128, 72, 169, 32, 72, 169, p, 72, 64>>)
    @@ Place(32, <<234, 234>>)
    @@ Vectors(32768, 32768, 32768)

\* $8000  LDA #p ; PHA ; PLP ; PHP ; PLP ; NOP
ProgPlp(p) ==
    Place(0, <<169, p, 72, 40, 8, 40, 234, 234>>)
    @@ Vectors(32768, 32768, 32768)

\* $8000  BRK ; (padding) ; NOP ; NOP
\* $8020  PHP ; PLP ; RTI                the handler of BRK
ProgBrk ==
    Place(0, <<0, 234, 234, 234>>)
    @@ Place(32, <<8, 40, 64>>)
    @@ Vectors(32768, 32768, 32800)

\* $8000  STA $4014 (59 times)           past the PPU warm-up
\* $80B1  LDA #$80 ; STA $2000           NMI on
\* $80B6  JMP $80B6                      until the vertical blank
\* $8200  RTI                            the handler of the NMI
ProgNmiSoon ==
    Place(0, RepCode(59, <<141, 20, 64>>)
             \o <<169, 128, 141, 0, 32>>
             \o <<76, 182, 128>>)
    @@ Place(512, <<64>>)
    @@ Vectors(33280, 32768, 32768)


\* steps of ProgNmiSoon before the first state: the NMI is serviced in the
\* fifth step after it
NmiLeadSteps == 9105

StackPrograms ==
    {ProgRti(p) : p \in StackBytes} \cup {ProgPlp(p) : p \in StackBytes} \cup {ProgBrk}

InitStack ==
    /\ \/ \E prog \in StackPrograms : cpu = Invoke("PowerOn", <<prog>>)
       \/ cpu = Invoke("Run", <<Invoke("PowerOn", <<ProgNmiSoon>>), NmiLeadSteps>>)
    /\ host = "run"
    /\ obs = [op |-> "on", opcode |-> 0, n |-> 0, nmis |-> 0, before |-> Cpu_new]

StackStep ==
    /\ obs.n < MaxStackSteps
    /\ Invoke("Modelled", <<cpu>>)
    /\ LET Step(tr) ==
               /\ cpu' = tr.st
               /\ obs' = [op |-> "step", opcode |-> tr.opcode, n |-> obs.n + 1,
                          nmis |-> tr.log.nmis, before |-> cpu]
       IN  Step(Invoke("Cpu_step_trace", <<cpu>>))
    /\ UNCHANGED host

NextStack == StackStep

SpecStack == InitStack /\ [][NextStack]_vars

\* the byte that RTI pulls into P: the one above the stack pointer
PulledByte(c) == Memory_get(c.bus.ram, 256 + Wrap8(c.sp + 1))

\* C37: after every step, NMI service included, bit 4 (B) of P is clear and
\* bit 5 (U) is set, whatever BRK, PHP, PLP and RTI find on the stack.
C37_BreakClearUnusedSet ==
    obs.op = "step" => BitAnd(cpu.p, 48) = 32

\* what the code does: B is clear after every step, and U is what RTI pulled
\* after an RTI, and as before the step after anything else
C37_UnusedFromRti ==
    obs.op = "step" =>
        /\ BitAnd(cpu.p, 16) = 0
        /\ BitAnd(cpu.p, 32) =
               IF obs.opcode = 64 /\ obs.nmis = 0
               THEN BitAnd(PulledByte(obs.before), 32)
               ELSE BitAnd(obs.before.p, 32)

\* an RTI that pulled a byte with bit 5 clear has left P with U clear
C37_RtiClearsUnused ==
    /\ obs.op = "step"
    /\ obs.opcode = 64
    /\ BitAnd(PulledByte(obs.before), 32) = 0
    /\ BitAnd(cpu.p, 32) = 0

\* the steps the claim names have run: an NMI was serviced, and BRK, PHP,
\* PLP and RTI were executed, with B clear and U set after them
C37_NmiServiced ==
    /\ obs.op = "step"
    /\ obs.nmis > 0
    /\ cpu.pc = 33280
    /\ BitAnd(cpu.p, 48) = 32

C37_BrkExecuted ==
    /\ obs.op = "step"
    /\ obs.opcode = 0
    /\ cpu.pc = 32800
    /\ BitAnd(cpu.p, 48) = 32
    /\ BitAnd(PulledByte(cpu), 48) = 48

----------------------------------------------------------------------------
(* OAM DMA from any OAM address                                            *)

\* bound of the number of steps
MaxDmaSteps == 9

\* values of oamaddr before the transfer, source pages (RAM page 2, its
\* mirror at $0A00, and the first page of the ROM), and a byte of the page
OamAddrs == {0, 1, 3, 4, 128, 252, 255}
DmaPages == {2, 10, 128}
DmaData  == {7, 200}

\* $8000  LDA #d ; STA $0200
\* $8005  LDA #a ; STA $02FF ; STA $2003      oamaddr = a
\* $800D  LDA #page ; STA $4014               DMA of `page` pending
\* $8012  NOP ; NOP                           the first NOP's step copies
ProgDma(a, page, d) ==
    Place(0, <<169, d, 141, 0, 2,
               169, a, 141, 255, 2, 141, 3, 32,
               169, page, 141, 20, 64,
               234, 234>>)
    @@ Vectors(32768, 32768, 32768)

InitDma ==
    /\ \E a \in OamAddrs, page \in DmaPages, d \in DmaData :
          cpu = Invoke("PowerOn", <<ProgDma(a, page, d)>>)
    /\ host = "run"
    /\ obs = [op |-> "on", n |-> 0, before |-> Cpu_new]

DmaStep ==
    /\ obs.n < MaxDmaSteps
    /\ Invoke("Modelled", <<cpu>>)
    /\ LET Step(tr) ==
               /\ cpu' = tr.st
               /\ obs' = [op |-> "step", n |-> obs.n + 1, before |-> cpu]
       IN  Step(Invoke("Cpu_step_trace", <<cpu>>))
    /\ UNCHANGED host

NextDma == DmaStep

SpecDma == InitDma /\ [][NextDma]_vars

\* byte i of the page of the pending DMA, as the bus returns it
SourceByte(c, i) == Invoke("Bus_read", <<c.bus, c.bus.dma_transfer[2] * 256 + i>>).val

\* C38: an OAM DMA started with any value of oamaddr writes source byte i
\* to OAM location (oamaddr + i) mod 256 for i = 0..255 and leaves oamaddr
\* as it was before the transfer.
C38_DmaFromAnyAddr ==
    obs.op = "step" /\ obs.before.bus.dma_transfer[1] =>
        /\ \A i \in 0..255 :
              Memory_get(cpu.bus.ppu.oam, (obs.before.bus.ppu.oamaddr + i) % 256)
                  = SourceByte(obs.before, i)
        /\ cpu.bus.ppu.oamaddr = obs.before.bus.ppu.oamaddr

\* a DMA started at oamaddr 255 has wrapped: source byte 0 is the last byte
\* of OAM, source bytes 1 and 255 the first and the last but one
C38_Witness ==
    /\ obs.op = "step" /\ obs.before.bus.dma_transfer[1]
    /\ obs.before.bus.dma_transfer[2] = 2
    /\ obs.before.bus.ppu.oamaddr = 255
    /\ SourceByte(obs.before, 0) = 200
    /\ SourceByte(obs.before, 255) = 255
    /\ Memory_get(cpu.bus.ppu.oam, 255) = 200
    /\ Memory_get(cpu.bus.ppu.oam, 254) = 255
    /\ Memory_get(cpu.bus.ppu.oam, 0) = 0
    /\ cpu.bus.ppu.oamaddr = 255

----------------------------------------------------------------------------
(* The flags of the status register                                        *)

\* bounds of the number of PPU ticks and of register accesses
MaxStatusTicks    == 8
MaxStatusAccesses == 2

\* the dot of scanlines 240 and 260 that behaviours start at
StatusDot == 336

\* nine sprites on scanline 0, sprite 0 over an opaque background pixel
StatusConfig == [mask |-> 30, ctrl |-> 0, sprites |-> Row(0..8, 0, 0)]

\* registers read ($2002, its mirror $200A, $2007) and written
StatusReads  == {8194, 8202, 8199}
StatusWrites == {<<8192, 128>>, <<8193, 30>>, <<8194, 0>>}

\* Ppu::step to the end of the scanline, n times
RECURSIVE PpuRowRun(_, _)
PpuRowRun(p, n) ==
    IF n = 0 THEN p
    ELSE LET Rest(q) == IF q.cycle >= 0 THEN PpuRowRun(q, n - 1) ELSE q
         IN  Rest(PpuRun(p, 341 - p.cycle))

\* Ppu::step until scanline L begins, in runs of RunBlockLen scanlines
RECURSIVE PpuRowsTo(_, _)
PpuRowsTo(p, L) ==
    IF p.scanline = L THEN p
    ELSE LET left == (L - p.scanline) % NUM_SCANLINES
             n    == IF left < RunBlockLen THEN left ELSE RunBlockLen
             Rest(q) == IF q.cycle >= 0 THEN PpuRowsTo(q, L) ELSE q
         IN  Rest(PpuRowRun(p, n))

\* The machine of ProgRender with StatusConfig set up in the vertical
\* blank, on scanline 3 of the next frame with the three flags set; then
\* with $2001 = 0 at dot StatusDot of scanline 240 and of scanline 260.
InitStatus ==
    /\ \E base \in {Invoke("Run", <<Nes_on(Nes_set_rom(Nes_new, NromChrRom(ProgRender, Tiles))),
                         StepsToVblank>>)} :
          \E set \in {[base EXCEPT !.bus = BusWrites(@, Setup(StatusConfig))]} :
          \E lit \in {[set EXCEPT !.bus.ppu = PpuRowsTo(PpuRun(PpuRows(@), 341), 3)]} :
          \E off \in {[lit EXCEPT !.bus = Invoke("Bus_write", <<@, 8193, 0>>)]} :
          \E low \in {[off EXCEPT !.bus.ppu = PpuRun(PpuRowsTo(@, 240), StatusDot)]} :
              cpu \in {lit, low,
                       [low EXCEPT !.bus.ppu = PpuRun(PpuRowsTo(@, 260), StatusDot)]}
    /\ host = "run"
    /\ obs = [op |-> "on", addr |-> 0, ticks |-> 0, accesses |-> 0]

StatusTick ==
    /\ obs.ticks < MaxStatusTicks
    /\ cpu' = [cpu EXCEPT !.bus.ppu = Invoke("Ppu_step", <<@>>)]
    /\ obs' = [obs EXCEPT !.op = "tick", !.addr = 0, !.ticks = @ + 1]
    /\ UNCHANGED host

StatusRead ==
    /\ obs.accesses < MaxStatusAccesses
    /\ \E addr \in StatusReads :
          /\ cpu' = [cpu EXCEPT !.bus = Invoke("Bus_read", <<@, addr>>).st]
          /\ obs' = [obs EXCEPT !.op = "read", !.addr = addr, !.accesses = @ + 1]
    /\ UNCHANGED host

StatusWrite ==
    /\ obs.accesses < MaxStatusAccesses
    /\ \E w \in StatusWrites :
          /\ cpu' = [cpu EXCEPT !.bus = Invoke("Bus_write", <<@, w[1], w[2]>>)]
          /\ obs' = [obs EXCEPT !.op = "write", !.addr = w[1], !.accesses = @ + 1]
    /\ UNCHANGED host

NextStatus == StatusTick \/ StatusRead \/ StatusWrite

SpecStatus == InitStatus /\ [][NextStatus]_vars

\* C39: bits 6 (sprite-0 hit) and 5 (sprite overflow) of status, once set,
\* stay set through every PPU tick and register access, the pre-render
\* scanline included; bit 7 (VBlank) is cleared by a read of $2002 only,
\* never by the PPU reaching the pre-render scanline.
C39_FlagsStay ==
    [][ /\ BitAnd(cpu.bus.ppu.status, 64) # 0 => BitAnd(cpu'.bus.ppu.status, 64) # 0
        /\ BitAnd(cpu.bus.ppu.status, 32) # 0 => BitAnd(cpu'.bus.ppu.status, 32) # 0
        /\ BitAnd(cpu.bus.ppu.status, 128) # 0 /\ BitAnd(cpu'.bus.ppu.status, 128) = 0
               => obs'.op = "read" /\ BitAnd(obs'.addr, 8199) = 8194 ]_vars

\* the PPU has processed dot 1 of the pre-render scanline with rendering
\* enabled, and the three flags are still set
C39_Witness ==
    /\ obs.op = "tick"
    /\ cpu.bus.ppu.scanline = 261 /\ cpu.bus.ppu.cycle = 2
    /\ Ppu_is_rendering_enabled(cpu.bus.ppu)
    /\ cpu.bus.ppu.status = 224

----------------------------------------------------------------------------
(* Calls by name.  The functions of the program call one another through   *)
(* Invoke(f, a), the application of the operator named f to the tuple a    *)
(* of its arguments: Invoke("Bus_read", <<b, addr>>) is Bus_read(b, addr). *)
(* The one recursive operator lets TLC expand the body of each function    *)
(* once, and not once for every chain of calls that leads to it.           *)

Invoke(f, a) ==
    CASE f = "Ppu_read" -> Ppu_read(a[1], a[2])
      [] f = "Ppu_load_pixel" -> Ppu_load_pixel(a[1])
      [] f = "Ppu_load_shift_registers" -> Ppu_load_shift_registers(a[1])
      [] f = "Ppu_evaluate_sprites" -> Ppu_evaluate_sprites(a[1])
      [] f = "Ppu_step" -> Ppu_step(a[1])
      [] f = "Mapper_read" -> Mapper_read(a[1], a[2])
      [] f = "Bus_read" -> Bus_read(a[1], a[2])
      [] f = "Bus_write" -> Bus_write(a[1], a[2], a[3])
      [] f = "Cpu_read_byte" -> Cpu_read_byte(a[1], a[2])
      [] f = "Cpu_read_word" -> Cpu_read_word(a[1], a[2])
      [] f = "Cpu_stack_push" -> Cpu_stack_push(a[1], a[2])
      [] f = "Cpu_stack_pop" -> Cpu_stack_pop(a[1])
      [] f = "Cpu_fetch_abs" -> Cpu_fetch_abs(a[1])
      [] f = "Cpu_fetch_operand_addr" -> Cpu_fetch_operand_addr(a[1], a[2])
      [] f = "Cpu_fetch_operand" -> Cpu_fetch_operand(a[1])
      [] f = "Cpu_load_operand" -> Cpu_load_operand(a[1], a[2])
      [] f = "Cpu_interrupt_NMI" -> Cpu_interrupt_NMI(a[1])
      [] f = "Cpu_interrupt_BRK" -> Cpu_interrupt_BRK(a[1])
      [] f = "Call" -> Call(a[1], a[2], a[3])
      [] f = "Cpu_step_trace" -> Cpu_step_trace(a[1])
      [] f = "Cpu_reset" -> Cpu_reset(a[1])
      [] f = "Nes_step" -> Nes_step(a[1])
      [] f = "Run" -> Run(a[1], a[2])
      [] f = "PowerOn" -> PowerOn(a[1])
      [] f = "Modelled" -> Modelled(a[1])
      [] f = "DmaSource" -> DmaSource(a[1], a[2])
      [] f = "RunEach" -> RunEach(a[1], a[2])
====
